---------------------------- MODULE Spec2Model ----------------------------
(***************************************************************************)
(* The Color Temperature object of the BACnet stack                        *)
(* (src/src/bacnet/basic/object/color_temperature.c): its keyed object     *)
(* store, its property read and write handlers, its name setter and the    *)
(* tag codec and device services they call.                                *)
(*                                                                         *)
(* Bytes are naturals 0..255, buffers and texts are sequences of bytes.    *)
(* A C pointer that may be NULL is modelled by the record NULL or by the   *)
(* value it points to; a pointer into caller memory is a buffer id.        *)
(***************************************************************************)
EXTENDS Integers, Sequences, FiniteSets, TLC

VARIABLES
    Object_List,        \* static OS_Keylist Object_List
    Write_Present_Value_Callback, \* the registered present-value callback
    Database_Revision,  \* the device's database revision counter
    Memory,             \* caller-owned text buffers, by buffer id
    last,               \* the last call: its request and its outcome
    written             \* history: the present value last written, by key

vars == <<Object_List, Write_Present_Value_Callback, Database_Revision,
          Memory, last, written>>

(***************************************************************************)
(* Bounds of the model                                                     *)
(***************************************************************************)
\* number of records the store holds at most
MaxCount == 2
\* the database revision stops counting here
MaxRevision == 4

(***************************************************************************)
(* Program constants (bacdef.h, bacenum.h)                                 *)
(***************************************************************************)
BACNET_MAX_INSTANCE == 4194303
BACNET_MAX_OBJECT == 1023
\* the all-ones array index 0xFFFFFFFF, read as a 32-bit two's complement
BACNET_ARRAY_ALL == -1
BACNET_STATUS_ERROR == -1
BACNET_NO_PRIORITY == 0
BACNET_MAX_PRIORITY == 16
OBJECT_COLOR == 63
OBJECT_COLOR_TEMPERATURE == 64
BACNET_APPLICATION_TAG_BOOLEAN == 1
BACNET_APPLICATION_TAG_UNSIGNED_INT == 2
BACNET_APPLICATION_TAG_SIGNED_INT == 3
BACNET_APPLICATION_TAG_REAL == 4
BACNET_APPLICATION_TAG_DOUBLE == 5
BACNET_APPLICATION_TAG_OCTET_STRING == 6
BACNET_APPLICATION_TAG_CHARACTER_STRING == 7
BACNET_APPLICATION_TAG_BIT_STRING == 8
BACNET_APPLICATION_TAG_ENUMERATED == 9
BACNET_APPLICATION_TAG_DATE == 10
BACNET_APPLICATION_TAG_TIME == 11
BACNET_APPLICATION_TAG_OBJECT_ID == 12
CHARACTER_ANSI_X34 == 0
BACNET_COLOR_OPERATION_NONE == 0
BACNET_COLOR_OPERATION_IN_PROGRESS_IDLE == 0
BACNET_COLOR_OPERATION_IN_PROGRESS_MAX == 5
BACNET_COLOR_TRANSITION_NONE == 0
BACNET_COLOR_FADE_TIME_MIN == 100
BACNET_COLOR_FADE_TIME_MAX == 86400000
BACNET_COLOR_TRANSITION_MAX == 3

NULL == [null |-> TRUE]

(***************************************************************************)
(* Tag codec (spec 4.1): the tag byte, the extended length, big-endian     *)
(* minimal-width primitives.                                               *)
(***************************************************************************)
RECURSIVE BigEndian(_, _)
\* the n low-order bytes of v, most significant first
BigEndian(v, n) ==
    IF n = 0 THEN <<>>
    ELSE BigEndian(v \div 256, n - 1) \o <<v % 256>>

RECURSIVE FromBigEndian(_)
\* the unsigned value of a big-endian byte sequence
FromBigEndian(bytes) ==
    IF bytes = <<>> THEN 0
    ELSE FromBigEndian(SubSeq(bytes, 1, Len(bytes) - 1)) * 256
         + bytes[Len(bytes)]

\* a length whose thresholds include the first value of the next width
UnsignedLength_Inclusive(v) ==
    IF v <= 256 THEN 1
    ELSE IF v <= 65536 THEN 2
    ELSE IF v <= 16777216 THEN 3
    ELSE 4

\* minimal number of bytes of an unsigned value (32 bits)
UnsignedLength(v) ==
    IF v < 256 THEN 1
    ELSE IF v < 65536 THEN 2
    ELSE IF v < 16777216 THEN 3
    ELSE 4

\* minimal number of bytes of a signed value in two's complement (32 bits)
SignedLength(v) ==
    IF v >= -128 /\ v < 128 THEN 1
    ELSE IF v >= -32768 /\ v < 32768 THEN 2
    ELSE IF v >= -8388608 /\ v < 8388608 THEN 3
    ELSE 4

\* the bytes with every bit inverted
Complement(bytes) == [k \in DOMAIN bytes |-> 255 - bytes[k]]

\* the n bytes of v in two's complement, most significant first (a
\* negative v is the complement of -v - 1)
SignedBigEndian(v, n) ==
    IF v >= 0 THEN BigEndian(v, n)
    ELSE Complement(BigEndian(-v - 1, n))

\* the signed value of a two's complement byte sequence
FromSignedBigEndian(bytes) ==
    IF bytes = <<>> THEN 0
    ELSE IF bytes[1] < 128 THEN FromBigEndian(bytes)
    ELSE -FromBigEndian(Complement(bytes)) - 1

\* tag byte, extended tag number, extended length
encode_tag(tag_number, context_specific, len_value_type) ==
    LET class == IF context_specific THEN 8 ELSE 0
        tagbits == IF tag_number <= 14 THEN tag_number * 16 ELSE 240
        tagext == IF tag_number <= 14 THEN <<>> ELSE <<tag_number>>
        lvt == IF len_value_type <= 4 THEN len_value_type ELSE 5
        lenext == IF len_value_type <= 4 THEN <<>>
                  ELSE IF len_value_type <= 253 THEN <<len_value_type>>
                  ELSE IF len_value_type <= 65535
                       THEN <<254>> \o BigEndian(len_value_type, 2)
                  ELSE <<255>> \o BigEndian(len_value_type, 4)
    IN  <<tagbits + class + lvt>> \o tagext \o lenext

encode_application_unsigned(value) ==
    encode_tag(BACNET_APPLICATION_TAG_UNSIGNED_INT, FALSE,
               UnsignedLength(value))
        \o BigEndian(value, UnsignedLength(value))

encode_application_enumerated(value) ==
    encode_tag(BACNET_APPLICATION_TAG_ENUMERATED, FALSE,
               UnsignedLength(value))
        \o BigEndian(value, UnsignedLength(value))

\* the value is in the length/value field of the tag: no payload
encode_application_boolean(boolean_value) ==
    encode_tag(BACNET_APPLICATION_TAG_BOOLEAN, FALSE,
               IF boolean_value THEN 1 ELSE 0)

encode_application_signed(value) ==
    encode_tag(BACNET_APPLICATION_TAG_SIGNED_INT, FALSE, SignedLength(value))
        \o SignedBigEndian(value, SignedLength(value))

\* a double is held as its eight bytes, most significant first
encode_application_double(value) ==
    encode_tag(BACNET_APPLICATION_TAG_DOUBLE, FALSE, 8) \o value

encode_application_octet_string(octet_string) ==
    encode_tag(BACNET_APPLICATION_TAG_OCTET_STRING, FALSE, Len(octet_string))
        \o octet_string

\* the number of unused bits of the last byte, then the bytes
encode_application_bitstring(bit_string) ==
    encode_tag(BACNET_APPLICATION_TAG_BIT_STRING, FALSE,
               Len(bit_string.value) + 1)
        \o <<bit_string.bits_unused>> \o bit_string.value

\* year since 1900, month, day, day of the week
encode_application_date(bdate) ==
    encode_tag(BACNET_APPLICATION_TAG_DATE, FALSE, 4)
        \o <<bdate.year, bdate.month, bdate.day, bdate.wday>>

encode_application_time(btime) ==
    encode_tag(BACNET_APPLICATION_TAG_TIME, FALSE, 4)
        \o <<btime.hour, btime.min, btime.sec, btime.hundredths>>

\* the 32-bit object identifier, big-endian: 10 bits of type, then 22 bits
\* of instance (the bytes are computed apart: the value needs 32 bits)
encode_bacnet_object_id(object_type, instance) ==
    LET type == object_type % (BACNET_MAX_OBJECT + 1)
        inst == instance % (BACNET_MAX_INSTANCE + 1)
    IN  <<type \div 4, (type % 4) * 64 + inst \div 65536,
          (inst \div 256) % 256, inst % 256>>

encode_application_object_id(object_type, instance) ==
    encode_tag(BACNET_APPLICATION_TAG_OBJECT_ID, FALSE, 4)
        \o encode_bacnet_object_id(object_type, instance)

\* the capacity of the value array of a BACNET_CHARACTER_STRING
MAX_CHARACTER_STRING_BYTES == 1470

\* a BACNET_CHARACTER_STRING holding the text
characterstring_init_ansi(text) ==
    [encoding |-> CHARACTER_ANSI_X34, value |-> text]

\* a string whose length is beyond the capacity of the array is not
\* encoded: nothing is written and the length returned is 0
encode_application_character_string(char_string) ==
    IF Len(char_string.value) > MAX_CHARACTER_STRING_BYTES
    THEN <<>>
    ELSE encode_tag(BACNET_APPLICATION_TAG_CHARACTER_STRING, FALSE,
                    Len(char_string.value) + 1)
             \o <<char_string.encoding>> \o char_string.value

\* a real of four bytes (only its tag matters to the handlers modelled)
encode_application_real(bits) ==
    encode_tag(BACNET_APPLICATION_TAG_REAL, FALSE, 4) \o BigEndian(bits, 4)

\* color command with operation NONE: context tag 0, enumerated
color_command_encode(color_command) ==
    encode_tag(0, TRUE, 1) \o <<color_command.operation>>

\* a tag with the extended length in the form of the given number of
\* bytes (1, 3 or 5), whatever the magnitude of the length
encode_tag_escalated(tag_number, len_value_type, form) ==
    <<tag_number * 16 + 5>> \o
        (IF form = 1 THEN <<len_value_type>>
         ELSE IF form = 3 THEN <<254>> \o BigEndian(len_value_type, 2)
         ELSE <<255>> \o BigEndian(len_value_type, 4))

\* a decoder that accepts every form of the extended length
Canonical_Length_Lenient(form, v) == TRUE

\* the form of the extended length (1, 3 or 5 bytes) is the one that the
\* magnitude of the length calls for
Canonical_Length(form, v) ==
    IF form = 5 THEN v > 65535
    ELSE IF form = 3 THEN v > 253
    ELSE v > 4

\* the tag at the head of apdu: len is the number of bytes of the tag
\* (BACNET_STATUS_ERROR when the buffer ends inside it or the extended
\* length is not in its canonical form)
decode_tag_number_and_value(apdu) ==
    LET fail == [len |-> BACNET_STATUS_ERROR, tag_number |-> 0,
                 context_specific |-> FALSE, value |-> 0]
    IN  IF Len(apdu) < 1 THEN fail
        ELSE
        LET b0 == apdu[1]
            ext == (b0 \div 16) = 15
            ctx == ((b0 \div 8) % 2) = 1
            lvt == b0 % 8
            p == IF ext THEN 2 ELSE 1 \* bytes of tag byte and tag number
        IN  IF ext /\ Len(apdu) < 2 THEN fail
            ELSE
            LET tag == IF ext THEN apdu[2] ELSE b0 \div 16
            IN  IF (lvt < 5) \/ (lvt > 5)
                THEN [len |-> p, tag_number |-> tag,
                      context_specific |-> ctx, value |-> lvt]
                ELSE IF Len(apdu) < p + 1 THEN fail
                ELSE IF apdu[p + 1] = 255
                THEN IF Len(apdu) < p + 5 THEN fail
                     ELSE LET v == FromBigEndian(SubSeq(apdu, p + 2, p + 5))
                          IN  IF ~Canonical_Length(5, v) THEN fail
                              ELSE [len |-> p + 5, tag_number |-> tag,
                                    context_specific |-> ctx, value |-> v]
                ELSE IF apdu[p + 1] = 254
                THEN IF Len(apdu) < p + 3 THEN fail
                     ELSE LET v == FromBigEndian(SubSeq(apdu, p + 2, p + 3))
                          IN  IF ~Canonical_Length(3, v) THEN fail
                              ELSE [len |-> p + 3, tag_number |-> tag,
                                    context_specific |-> ctx, value |-> v]
                ELSE IF ~Canonical_Length(1, apdu[p + 1]) THEN fail
                ELSE [len |-> p + 1, tag_number |-> tag,
                      context_specific |-> ctx, value |-> apdu[p + 1]]

\* the object type and instance of a four-byte object identifier
decode_object_id(apdu) ==
    IF Len(apdu) < 4
    THEN [len |-> BACNET_STATUS_ERROR, object_type |-> 0, instance |-> 0]
    ELSE [len |-> 4,
          object_type |-> apdu[1] * 4 + apdu[2] \div 64,
          instance |-> (apdu[2] % 64) * 65536 + apdu[3] * 256 + apdu[4]]

\* the bytes a decoder may read: all of the buffer, whatever the length
Supplied_Whole(apdu, apdu_len) == apdu

\* the bytes a decoder may read: those below the supplied length
Supplied(apdu, apdu_len) == SubSeq(apdu, 1, apdu_len)

\* one application-tagged value: len is the number of bytes consumed,
\* BACNET_STATUS_ERROR when the value does not decode
bacapp_decode_application_data(apdu, apdu_len) ==
    LET fail == [len |-> BACNET_STATUS_ERROR, tag |-> 0, value |-> 0]
        data == Supplied(apdu, apdu_len)
        t == decode_tag_number_and_value(data)
    IN  IF t.len < 0 \/ t.context_specific THEN fail
        ELSE IF t.tag_number = BACNET_APPLICATION_TAG_BOOLEAN
        THEN IF t.value > 1 THEN fail
             ELSE [len |-> t.len, tag |-> t.tag_number,
                   value |-> (t.value = 1)]
        ELSE IF Len(data) < t.len + t.value THEN fail
        ELSE
        LET payload == SubSeq(data, t.len + 1, t.len + t.value)
        IN  IF t.tag_number \in {BACNET_APPLICATION_TAG_UNSIGNED_INT,
                                 BACNET_APPLICATION_TAG_ENUMERATED}
            THEN IF t.value < 1 \/ t.value > 4 THEN fail
                 ELSE [len |-> t.len + t.value, tag |-> t.tag_number,
                       value |-> FromBigEndian(payload)]
            ELSE IF t.tag_number = BACNET_APPLICATION_TAG_SIGNED_INT
            THEN IF t.value < 1 \/ t.value > 4 THEN fail
                 ELSE [len |-> t.len + t.value, tag |-> t.tag_number,
                       value |-> FromSignedBigEndian(payload)]
            ELSE IF t.tag_number = BACNET_APPLICATION_TAG_REAL
            THEN IF t.value # 4 THEN fail
                 ELSE [len |-> t.len + 4, tag |-> t.tag_number,
                       value |-> FromBigEndian(payload)]
            ELSE IF t.tag_number = BACNET_APPLICATION_TAG_DOUBLE
            THEN IF t.value # 8 THEN fail
                 ELSE [len |-> t.len + 8, tag |-> t.tag_number,
                       value |-> payload]
            ELSE IF t.tag_number = BACNET_APPLICATION_TAG_OCTET_STRING
            THEN [len |-> t.len + t.value, tag |-> t.tag_number,
                  value |-> payload]
            ELSE IF t.tag_number = BACNET_APPLICATION_TAG_OBJECT_ID
            THEN IF t.value # 4 THEN fail
                 ELSE [len |-> t.len + 4, tag |-> t.tag_number,
                       value |-> decode_object_id(payload)]
            ELSE IF t.tag_number = BACNET_APPLICATION_TAG_CHARACTER_STRING
            THEN IF t.value < 1 THEN fail
                 ELSE [len |-> t.len + t.value, tag |-> t.tag_number,
                       value |-> [encoding |-> payload[1],
                                  value |-> SubSeq(payload, 2, Len(payload))]]
            ELSE IF t.tag_number = BACNET_APPLICATION_TAG_BIT_STRING
            THEN IF t.value < 1 \/ payload[1] > 7 THEN fail
                 ELSE [len |-> t.len + t.value, tag |-> t.tag_number,
                       value |-> [bits_unused |-> payload[1],
                                  value |-> SubSeq(payload, 2, Len(payload))]]
            ELSE IF t.tag_number = BACNET_APPLICATION_TAG_DATE
            THEN IF t.value # 4 THEN fail
                 ELSE [len |-> t.len + 4, tag |-> t.tag_number,
                       value |-> [year |-> payload[1], month |-> payload[2],
                                  day |-> payload[3], wday |-> payload[4]]]
            ELSE IF t.tag_number = BACNET_APPLICATION_TAG_TIME
            THEN IF t.value # 4 THEN fail
                 ELSE [len |-> t.len + 4, tag |-> t.tag_number,
                       value |-> [hour |-> payload[1], min |-> payload[2],
                                  sec |-> payload[3],
                                  hundredths |-> payload[4]]]
            ELSE fail

\* the encoding of an application value by its tag
bacapp_encode_application_data(value) ==
    IF value.tag = BACNET_APPLICATION_TAG_BOOLEAN
    THEN encode_application_boolean(value.value)
    ELSE IF value.tag = BACNET_APPLICATION_TAG_UNSIGNED_INT
    THEN encode_application_unsigned(value.value)
    ELSE IF value.tag = BACNET_APPLICATION_TAG_SIGNED_INT
    THEN encode_application_signed(value.value)
    ELSE IF value.tag = BACNET_APPLICATION_TAG_REAL
    THEN encode_application_real(value.value)
    ELSE IF value.tag = BACNET_APPLICATION_TAG_DOUBLE
    THEN encode_application_double(value.value)
    ELSE IF value.tag = BACNET_APPLICATION_TAG_OCTET_STRING
    THEN encode_application_octet_string(value.value)
    ELSE IF value.tag = BACNET_APPLICATION_TAG_CHARACTER_STRING
    THEN encode_application_character_string(value.value)
    ELSE IF value.tag = BACNET_APPLICATION_TAG_BIT_STRING
    THEN encode_application_bitstring(value.value)
    ELSE IF value.tag = BACNET_APPLICATION_TAG_ENUMERATED
    THEN encode_application_enumerated(value.value)
    ELSE IF value.tag = BACNET_APPLICATION_TAG_DATE
    THEN encode_application_date(value.value)
    ELSE IF value.tag = BACNET_APPLICATION_TAG_TIME
    THEN encode_application_time(value.value)
    ELSE encode_application_object_id(value.value.object_type,
                                      value.value.instance)

(***************************************************************************)
(* Keyed object store (spec 4.2): the key list, NULL or a record holding   *)
(* the nodes in ascending order of key.                                    *)
(***************************************************************************)
Keylist_Create == [nodes |-> <<>>]

Keylist_Count(list) ==
    IF list = NULL THEN 0 ELSE Len(list.nodes)

RECURSIVE FindIndex(_, _, _, _)
\* binary search in nodes[lo..hi]: the position of key, 0 when absent
FindIndex(nodes, key, lo, hi) ==
    IF lo > hi THEN 0
    ELSE LET mid == (lo + hi) \div 2
         IN  IF nodes[mid].key = key THEN mid
             ELSE IF nodes[mid].key < key
                  THEN FindIndex(nodes, key, mid + 1, hi)
             ELSE FindIndex(nodes, key, lo, mid - 1)

\* the 0-based index of key, -1 when absent
Keylist_Index(list, key) ==
    IF list = NULL THEN -1
    ELSE FindIndex(list.nodes, key, 1, Len(list.nodes)) - 1

\* the data stored under key, NULL when absent
Keylist_Data(list, key) ==
    LET at(index) == IF index < 0 THEN NULL ELSE list.nodes[index + 1].data
    IN  at(Keylist_Index(list, key))

\* a list that takes every new node at its end
Keylist_Data_Append(list, key, data) ==
    [nodes |-> Append(list.nodes, [key |-> key, data |-> data])]

\* the list with (key, data) inserted at its place in the order
Keylist_Data_Add(list, key, data) ==
    LET before == SelectSeq(list.nodes, LAMBDA n : n.key <= key)
        after == SelectSeq(list.nodes, LAMBDA n : n.key > key)
    IN  [nodes |-> before \o <<[key |-> key, data |-> data]>> \o after]

\* the list without the node of key
Keylist_Data_Delete(list, key) ==
    IF list = NULL THEN NULL
    ELSE [nodes |-> SelectSeq(list.nodes, LAMBDA n : n.key # key)]

\* the list without its last node (the node whose data is popped)
Keylist_Data_Pop(list) ==
    [nodes |-> SubSeq(list.nodes, 1, Len(list.nodes) - 1)]

RECURSIVE Keylist_Next_Empty_Key(_, _)
\* the lowest key >= key that the list does not hold
Keylist_Next_Empty_Key(list, key) ==
    IF Keylist_Index(list, key) < 0 THEN key
    ELSE Keylist_Next_Empty_Key(list, key + 1)

(***************************************************************************)
(* Texts                                                                   *)
(***************************************************************************)
RECURSIVE Decimal(_)
\* the decimal digits of n as ASCII, as printf's %u writes them
Decimal(n) ==
    IF n < 10 THEN <<48 + n>>
    ELSE Decimal(n \div 10) \o <<48 + (n % 10)>>

\* "COLOR-TEMPERATURE-"
Default_Name_Prefix ==
    <<67, 79, 76, 79, 82, 45, 84, 69, 77, 80, 69, 82, 65, 84, 85, 82, 69, 45>>

\* snprintf(name_text, 26, "COLOR-TEMPERATURE-%u", object_instance)
Default_Name(object_instance) ==
    LET text == Default_Name_Prefix \o Decimal(object_instance)
    IN  SubSeq(text, 1, IF Len(text) < 25 THEN Len(text) ELSE 25)

\* "COLOR-1", the name of the device's Color object of instance 1
Color_1_Name == <<67, 79, 76, 79, 82, 45, 49>>

(***************************************************************************)
(* The records and their accessors                                         *)
(***************************************************************************)
\* the record that Color_Temperature_Create builds
\* a record that starts with its writes enabled
New_Object_Data_Write_Enabled ==
    [Changed |-> FALSE,
     Write_Enabled |-> TRUE,
     Present_Value |-> 0,
     Tracking_Value |-> 0,
     Color_Command |-> [operation |-> BACNET_COLOR_OPERATION_NONE],
     In_Progress |-> BACNET_COLOR_OPERATION_IN_PROGRESS_IDLE,
     Default_Color_Temperature |-> 5000,
     Default_Fade_Time |-> 0,
     Default_Ramp_Rate |-> 0,
     Default_Step_Increment |-> 0,
     Transition |-> BACNET_COLOR_TRANSITION_NONE,
     Present_Value_Minimum |-> 0,
     Present_Value_Maximum |-> 0,
     Object_Name |-> "NULL",
     Description |-> "NULL"]

New_Object_Data ==
    [Changed |-> FALSE,
     Write_Enabled |-> FALSE,
     Present_Value |-> 0,
     Tracking_Value |-> 0,
     Color_Command |-> [operation |-> BACNET_COLOR_OPERATION_NONE],
     In_Progress |-> BACNET_COLOR_OPERATION_IN_PROGRESS_IDLE,
     Default_Color_Temperature |-> 5000,
     Default_Fade_Time |-> 0,
     Default_Ramp_Rate |-> 0,
     Default_Step_Increment |-> 0,
     Transition |-> BACNET_COLOR_TRANSITION_NONE,
     Present_Value_Minimum |-> 0,
     Present_Value_Maximum |-> 0,
     Object_Name |-> "NULL",
     Description |-> "NULL"]

\* a field update that takes the instance number for the index of the
\* record in the list
Set_Field_By_Index(list, object_instance, field, value) ==
    [nodes |-> [k \in DOMAIN list.nodes |->
        IF k = object_instance + 1
        THEN [list.nodes[k] EXCEPT !.data = [@ EXCEPT ![field] = value]]
        ELSE list.nodes[k]]]

\* the list with the record of object_instance changed in one field
Set_Field(list, object_instance, field, value) ==
    [nodes |-> [k \in DOMAIN list.nodes |->
        IF list.nodes[k].key = object_instance
        THEN [list.nodes[k] EXCEPT !.data = [@ EXCEPT ![field] = value]]
        ELSE list.nodes[k]]]

Color_Temperature_Valid_Instance(object_instance) ==
    Keylist_Data(Object_List, object_instance) # NULL

Color_Temperature_Count == Keylist_Count(Object_List)

\* the key at the 0-based index, BACNET_MAX_INSTANCE beyond the count
Keylist_Key(list, index) ==
    IF list # NULL /\ index >= 0 /\ index < Len(list.nodes)
    THEN list.nodes[index + 1].key
    ELSE BACNET_MAX_INSTANCE

Color_Temperature_Index_To_Instance(index) == Keylist_Key(Object_List, index)

\* an index that counts from one
Instance_To_Index_From_One(object_instance) ==
    Keylist_Index(Object_List, object_instance) + 1

\* UINT_MAX, what the int -1 of Keylist_Index becomes in the unsigned
\* return value: 2^32 - 1 is beyond the integers of the model checker, so
\* it is held as its decimal text
UINT_MAX == "4294967295"

Color_Temperature_Instance_To_Index(object_instance) ==
    LET index == Keylist_Index(Object_List, object_instance)
    IN  IF index < 0 THEN UINT_MAX ELSE index

\* the instances of the store
Instances ==
    IF Object_List = NULL THEN {}
    ELSE {Object_List.nodes[k].key : k \in DOMAIN Object_List.nodes}

Color_Temperature_Present_Value(object_instance) ==
    LET pObject == Keylist_Data(Object_List, object_instance)
    IN  IF pObject # NULL THEN pObject.Present_Value ELSE 0

Color_Temperature_Tracking_Value(object_instance) ==
    LET pObject == Keylist_Data(Object_List, object_instance)
    IN  IF pObject # NULL THEN pObject.Tracking_Value ELSE 0

Color_Temperature_Min_Pres_Value(object_instance) ==
    LET pObject == Keylist_Data(Object_List, object_instance)
    IN  IF pObject # NULL THEN pObject.Present_Value_Minimum ELSE 0

Color_Temperature_Max_Pres_Value(object_instance) ==
    LET pObject == Keylist_Data(Object_List, object_instance)
    IN  IF pObject # NULL THEN pObject.Present_Value_Maximum ELSE 0

\* status and what *value holds after the call; value is the caller's
\* BACNET_COLOR_COMMAND as it is passed in, or NULL
Color_Temperature_Command(object_instance, value) ==
    LET pObject == Keylist_Data(Object_List, object_instance)
    IN  IF pObject # NULL /\ value # NULL
        THEN [status |-> TRUE, value |-> pObject.Color_Command]
        ELSE [status |-> FALSE, value |-> value]

Color_Temperature_In_Progress(object_instance) ==
    LET pObject == Keylist_Data(Object_List, object_instance)
    IN  IF pObject # NULL THEN pObject.In_Progress
        ELSE BACNET_COLOR_OPERATION_IN_PROGRESS_MAX

Color_Temperature_Default_Color_Temperature(object_instance) ==
    LET pObject == Keylist_Data(Object_List, object_instance)
    IN  IF pObject # NULL THEN pObject.Default_Color_Temperature ELSE 0

Color_Temperature_Default_Fade_Time(object_instance) ==
    LET pObject == Keylist_Data(Object_List, object_instance)
    IN  IF pObject # NULL THEN pObject.Default_Fade_Time ELSE 0

Color_Temperature_Default_Ramp_Rate(object_instance) ==
    LET pObject == Keylist_Data(Object_List, object_instance)
    IN  IF pObject # NULL THEN pObject.Default_Ramp_Rate ELSE 0

Color_Temperature_Default_Step_Increment(object_instance) ==
    LET pObject == Keylist_Data(Object_List, object_instance)
    IN  IF pObject # NULL THEN pObject.Default_Step_Increment ELSE 0

Color_Temperature_Transition(object_instance) ==
    LET pObject == Keylist_Data(Object_List, object_instance)
    IN  IF pObject # NULL THEN pObject.Transition
        ELSE BACNET_COLOR_TRANSITION_NONE

Color_Temperature_Write_Enabled(object_instance) ==
    LET pObject == Keylist_Data(Object_List, object_instance)
    IN  IF pObject # NULL THEN pObject.Write_Enabled ELSE FALSE

\* status and the object name: the text of the buffer Object_Name points
\* to, or the default name
Color_Temperature_Object_Name(object_instance) ==
    LET pObject == Keylist_Data(Object_List, object_instance)
    IN  IF pObject # NULL
        THEN IF pObject.Object_Name # "NULL"
             THEN [status |-> TRUE, text |-> Memory[pObject.Object_Name]]
             ELSE [status |-> TRUE, text |-> Default_Name(object_instance)]
        ELSE [status |-> FALSE, text |-> <<>>]

\* the description text, "" when none is set, NULL for no object
Color_Temperature_Description(object_instance) ==
    LET pObject == Keylist_Data(Object_List, object_instance)
    IN  IF pObject # NULL
        THEN IF pObject.Description # "NULL"
             THEN [text |-> Memory[pObject.Description]]
             ELSE [text |-> <<>>]
        ELSE NULL

(***************************************************************************)
(* The device (spec 4.3, 6): the objects of other types it holds, its name *)
(* lookup over the whole object population, its database revision.         *)
(***************************************************************************)
\* the objects of other types in the device, with their names
Device_Other_Objects ==
    {[type |-> OBJECT_COLOR, instance |-> 1, name |-> Color_1_Name]}

\* the objects of the device that report the name: the lookup finds one of
\* them, or none
Device_Valid_Object_Name(object_name) ==
    {[type |-> OBJECT_COLOR_TEMPERATURE, instance |-> i] : i \in
        {j \in Instances :
            Color_Temperature_Object_Name(j).text = object_name.value}}
    \cup {[type |-> o.type, instance |-> o.instance] : o \in
        {x \in Device_Other_Objects : x.name = object_name.value}}

Device_Inc_Database_Revision == Database_Revision + 1

\* tag check of a decoded value against the tag a property expects
write_property_type_valid(wp_data, value, expected_tag) ==
    IF value.tag = expected_tag
    THEN [status |-> TRUE, wp_data |-> wp_data]
    ELSE [status |-> FALSE,
          wp_data |-> [wp_data EXCEPT
              !.error_class = "ERROR_CLASS_PROPERTY",
              !.error_code = "ERROR_CODE_INVALID_DATA_TYPE"]]

(***************************************************************************)
(* Property lists                                                          *)
(***************************************************************************)
Color_Temperature_Properties_Required ==
    <<"PROP_OBJECT_IDENTIFIER", "PROP_OBJECT_NAME", "PROP_OBJECT_TYPE",
      "PROP_PRESENT_VALUE", "PROP_TRACKING_VALUE", "PROP_COLOR_COMMAND",
      "PROP_IN_PROGRESS", "PROP_DEFAULT_COLOR_TEMPERATURE",
      "PROP_DEFAULT_FADE_TIME", "PROP_DEFAULT_RAMP_RATE",
      "PROP_DEFAULT_STEP_INCREMENT">>

\* an optional list that advertises a property the handlers do not have
Properties_Optional_With_Units ==
    <<"PROP_DESCRIPTION", "PROP_TRANSITION", "PROP_MIN_PRES_VALUE",
      "PROP_MAX_PRES_VALUE", "PROP_UNITS">>

Color_Temperature_Properties_Optional ==
    <<"PROP_DESCRIPTION", "PROP_TRANSITION", "PROP_MIN_PRES_VALUE",
      "PROP_MAX_PRES_VALUE">>

Color_Temperature_Properties_Proprietary == <<>>

\* the elements of a sequence
Range(seq) == {seq[k] : k \in DOMAIN seq}

\* the property ids of the three lists
Listed_Properties ==
    Range(Color_Temperature_Properties_Required)
        \cup Range(Color_Temperature_Properties_Optional)
        \cup Range(Color_Temperature_Properties_Proprietary)

(***************************************************************************)
(* The last call                                                           *)
(***************************************************************************)
No_Call ==
    [op |-> "none", object_type |-> 0, object_instance |-> 0,
     object_property |-> "none", array_index |-> BACNET_ARRAY_ALL,
     priority |-> BACNET_NO_PRIORITY, application_data |-> <<>>,
     application_data_len |-> 0, new_name |-> "NULL", value |-> 0,
     status |-> FALSE, apdu_len |-> 0, apdu |-> <<>>,
     error_class |-> "UNSET", error_code |-> "UNSET",
     callbacks |-> <<>>, instance |-> 0,
     data_value |-> [tag |-> 0, value |-> 0],
     decoded |-> [len |-> 0, tag |-> 0, value |-> 0], form |-> 0,
     use_after_free |-> FALSE, rpdata |-> "NULL", buffer |-> "NULL",
     color_command |-> NULL]

(***************************************************************************)
(* Present value                                                           *)
(***************************************************************************)
\* a present-value write that does not look at Write_Enabled
Present_Value_Write_Ungated(object_instance, value, priority, error_class, error_code) ==
    LET pObject == Keylist_Data(Object_List, object_instance)
    IN  IF pObject # NULL
        THEN [status |-> TRUE,
              error_class |-> error_class, error_code |-> error_code,
              list |-> Set_Field(Object_List, object_instance,
                                 "Present_Value", value),
              callbacks |->
                  IF Write_Present_Value_Callback # "NULL"
                  THEN <<[object_instance |-> object_instance,
                          old_value |-> pObject.Present_Value,
                          value |-> value]>>
                  ELSE <<>>,
                  revision |-> Database_Revision,
                  use_after_free |-> FALSE]
        ELSE [status |-> FALSE,
              error_class |-> "ERROR_CLASS_OBJECT",
              error_code |-> "ERROR_CODE_UNKNOWN_OBJECT",
              list |-> Object_List, callbacks |-> <<>>,
              revision |-> Database_Revision, use_after_free |-> FALSE]

\* a present-value write that keeps the value in a 16-bit field
Present_Value_Write_16_Bit(object_instance, value, priority, error_class, error_code) ==
    LET pObject == Keylist_Data(Object_List, object_instance)
    IN  IF pObject # NULL
        THEN IF pObject.Write_Enabled
             THEN [status |-> TRUE,
                   error_class |-> error_class, error_code |-> error_code,
                   list |-> Set_Field(Object_List, object_instance,
                                      "Present_Value", value % 65536),
                   callbacks |->
                       IF Write_Present_Value_Callback # "NULL"
                       THEN <<[object_instance |-> object_instance,
                               old_value |-> pObject.Present_Value,
                               value |-> value]>>
                       ELSE <<>>,
                       revision |-> Database_Revision,
                       use_after_free |-> FALSE]
             ELSE [status |-> FALSE,
                   error_class |-> "ERROR_CLASS_PROPERTY",
                   error_code |-> "ERROR_CODE_WRITE_ACCESS_DENIED",
                   list |-> Object_List, callbacks |-> <<>>,
                   revision |-> Database_Revision, use_after_free |-> FALSE]
        ELSE [status |-> FALSE,
              error_class |-> "ERROR_CLASS_OBJECT",
              error_code |-> "ERROR_CODE_UNKNOWN_OBJECT",
              list |-> Object_List, callbacks |-> <<>>,
              revision |-> Database_Revision, use_after_free |-> FALSE]

\* a present-value write that answers a missing instance like a
\* write-disabled one
Present_Value_Write_Missing_Denied(object_instance, value, priority, error_class, error_code) ==
    LET pObject == Keylist_Data(Object_List, object_instance)
    IN  IF pObject # NULL
        THEN IF pObject.Write_Enabled
             THEN [status |-> TRUE,
                   error_class |-> error_class, error_code |-> error_code,
                   list |-> Set_Field(Object_List, object_instance,
                                      "Present_Value", value),
                   callbacks |->
                       IF Write_Present_Value_Callback # "NULL"
                       THEN <<[object_instance |-> object_instance,
                               old_value |-> pObject.Present_Value,
                               value |-> value]>>
                       ELSE <<>>,
                       revision |-> Database_Revision,
                       use_after_free |-> FALSE]
             ELSE [status |-> FALSE,
                   error_class |-> "ERROR_CLASS_PROPERTY",
                   error_code |-> "ERROR_CODE_WRITE_ACCESS_DENIED",
                   list |-> Object_List, callbacks |-> <<>>,
                   revision |-> Database_Revision, use_after_free |-> FALSE]
        ELSE [status |-> FALSE,
              error_class |-> "ERROR_CLASS_PROPERTY",
              error_code |-> "ERROR_CODE_WRITE_ACCESS_DENIED",
              list |-> Object_List, callbacks |-> <<>>,
              revision |-> Database_Revision, use_after_free |-> FALSE]

\* a present-value write that stores the value before it looks at
\* Write_Enabled
Present_Value_Write_Stores_Then_Denies(object_instance, value, priority, error_class, error_code) ==
    LET pObject == Keylist_Data(Object_List, object_instance)
    IN  IF pObject # NULL
        THEN IF pObject.Write_Enabled
             THEN [status |-> TRUE,
                   error_class |-> error_class, error_code |-> error_code,
                   list |-> Set_Field(Object_List, object_instance,
                                      "Present_Value", value),
                   callbacks |->
                       IF Write_Present_Value_Callback # "NULL"
                       THEN <<[object_instance |-> object_instance,
                               old_value |-> pObject.Present_Value,
                               value |-> value]>>
                       ELSE <<>>,
                       revision |-> Database_Revision,
                       use_after_free |-> FALSE]
             ELSE [status |-> FALSE,
                   error_class |-> "ERROR_CLASS_PROPERTY",
                   error_code |-> "ERROR_CODE_WRITE_ACCESS_DENIED",
                   list |-> Set_Field(Object_List, object_instance,
                                      "Present_Value", value),
                   callbacks |-> <<>>,
                   revision |-> Database_Revision,
                   use_after_free |-> FALSE]
        ELSE [status |-> FALSE,
              error_class |-> "ERROR_CLASS_OBJECT",
              error_code |-> "ERROR_CODE_UNKNOWN_OBJECT",
              list |-> Object_List, callbacks |-> <<>>,
              revision |-> Database_Revision, use_after_free |-> FALSE]

\* a present-value write that sets the error code of a denial but not
\* its error class
Present_Value_Write_Code_Only(object_instance, value, priority, error_class, error_code) ==
    LET pObject == Keylist_Data(Object_List, object_instance)
    IN  IF pObject # NULL
        THEN IF pObject.Write_Enabled
             THEN [status |-> TRUE,
                   error_class |-> error_class, error_code |-> error_code,
                   list |-> Set_Field(Object_List, object_instance,
                                      "Present_Value", value),
                   callbacks |->
                       IF Write_Present_Value_Callback # "NULL"
                       THEN <<[object_instance |-> object_instance,
                               old_value |-> pObject.Present_Value,
                               value |-> value]>>
                       ELSE <<>>,
                       revision |-> Database_Revision,
                       use_after_free |-> FALSE]
             ELSE [status |-> FALSE,
                   error_class |-> error_class,
                   error_code |-> "ERROR_CODE_WRITE_ACCESS_DENIED",
                   list |-> Object_List, callbacks |-> <<>>,
                   revision |-> Database_Revision, use_after_free |-> FALSE]
        ELSE [status |-> FALSE,
              error_class |-> "ERROR_CLASS_OBJECT",
              error_code |-> "ERROR_CODE_UNKNOWN_OBJECT",
              list |-> Object_List, callbacks |-> <<>>,
              revision |-> Database_Revision, use_after_free |-> FALSE]

\* the outcome of Color_Temperature_Present_Value_Write: the status, the
\* error pair, the store and the callback invocations
\* the registered callback is application code that may call back into
\* the module: "record" only notes the call, "delete" deletes the instance
\* written, "cleanup" cleans the store up
Callback_Frees == Write_Present_Value_Callback \in {"delete", "cleanup"}

\* the store after the registered callback has run on it
Callback_Effect(list, object_instance) ==
    IF Write_Present_Value_Callback = "delete"
    THEN Keylist_Data_Delete(list, object_instance)
    ELSE IF Write_Present_Value_Callback = "cleanup" THEN NULL
    ELSE list

\* the database revision after the registered callback has run
Callback_Revision(list, object_instance) ==
    IF Write_Present_Value_Callback = "delete"
    THEN IF Keylist_Data(list, object_instance) # NULL
         THEN Device_Inc_Database_Revision ELSE Database_Revision
    ELSE IF Write_Present_Value_Callback = "cleanup"
    THEN Database_Revision + Keylist_Count(list)
    ELSE Database_Revision

\* what the callback receives, and the present value it finds in the store
Callback_Call(list, object_instance, old_value, value) ==
    IF Write_Present_Value_Callback # "NULL"
    THEN <<[object_instance |-> object_instance,
            old_value |-> old_value, value |-> value,
            present_value |-> Keylist_Data(list, object_instance).Present_Value]>>
    ELSE <<>>

\* the steps the write path takes on the record pObject points at: a load
\* of a field, a store to a field, and the call of the callback
Load(field) ==
    [op |-> "load", field |-> field, value |-> 0, old_value |-> 0]

Store(field, value) ==
    [op |-> "store", field |-> field, value |-> value, old_value |-> 0]

Call(old_value, value) ==
    [op |-> "call", field |-> "none", value |-> value,
     old_value |-> old_value]

\* the write path before its first step: the store as it is, no callback
\* called, the record of pObject allocated
Write_Start ==
    [list |-> Object_List, callbacks |-> <<>>,
     revision |-> Database_Revision, freed |-> FALSE,
     use_after_free |-> FALSE]

\* one step of the write path on the record of object_instance. The call
\* runs the registered callback on the store; the record is freed when the
\* callback has removed the instance. A load or a store that finds the
\* record freed is a use after free, and the store does not reach the list.
Write_Step(m, object_instance, step) ==
    IF step.op = "call"
    THEN [list |-> Callback_Effect(m.list, object_instance),
          callbacks |-> m.callbacks
              \o Callback_Call(m.list, object_instance,
                               step.old_value, step.value),
          revision |-> Callback_Revision(m.list, object_instance),
          freed |-> m.freed
              \/ Keylist_Data(Callback_Effect(m.list, object_instance),
                              object_instance) = NULL,
          use_after_free |-> m.use_after_free]
    ELSE IF m.freed
    THEN [m EXCEPT !.use_after_free = TRUE]
    ELSE IF step.op = "store"
    THEN [m EXCEPT !.list = Set_Field(@, object_instance,
                                      step.field, step.value)]
    ELSE m

\* the steps, taken in program order
Write_Run(steps, object_instance) ==
    LET run[k \in 0 .. Len(steps)] ==
            IF k = 0 THEN Write_Start
            ELSE Write_Step(run[k - 1], object_instance, steps[k])
    IN  run[Len(steps)]

\* what the write path returns and leaves behind after its steps
Write_Result(status, error_class, error_code, m) ==
    [status |-> status,
     error_class |-> error_class, error_code |-> error_code,
     list |-> m.list, callbacks |-> m.callbacks,
     revision |-> m.revision, use_after_free |-> m.use_after_free]

\* a write that calls the callback before it stores the value
Present_Value_Write_Calls_First(object_instance, value, priority, error_class, error_code) ==
    LET pObject == Keylist_Data(Object_List, object_instance)
    IN  IF pObject # NULL
        THEN IF pObject.Write_Enabled
             THEN Write_Result(TRUE, error_class, error_code,
                      Write_Run(<<Load("Write_Enabled"),
                                  Load("Present_Value"),
                                  Call(pObject.Present_Value, value),
                                  Store("Present_Value", value)>>,
                                object_instance))
             ELSE Write_Result(FALSE, "ERROR_CLASS_PROPERTY",
                      "ERROR_CODE_WRITE_ACCESS_DENIED",
                      Write_Run(<<Load("Write_Enabled")>>, object_instance))
        ELSE Write_Result(FALSE, "ERROR_CLASS_OBJECT",
                 "ERROR_CODE_UNKNOWN_OBJECT", Write_Start)

\* a write that marks the record as changed after the callback returned
Present_Value_Write_Marks_Changed(object_instance, value, priority, error_class, error_code) ==
    LET pObject == Keylist_Data(Object_List, object_instance)
    IN  IF pObject # NULL
        THEN IF pObject.Write_Enabled
             THEN Write_Result(TRUE, error_class, error_code,
                      Write_Run(<<Load("Write_Enabled"),
                                  Load("Present_Value"),
                                  Store("Present_Value", value),
                                  Call(pObject.Present_Value, value),
                                  Store("Changed", TRUE)>>,
                                object_instance))
             ELSE Write_Result(FALSE, "ERROR_CLASS_PROPERTY",
                      "ERROR_CODE_WRITE_ACCESS_DENIED",
                      Write_Run(<<Load("Write_Enabled")>>, object_instance))
        ELSE Write_Result(FALSE, "ERROR_CLASS_OBJECT",
                 "ERROR_CODE_UNKNOWN_OBJECT", Write_Start)

\* a write that refuses priority 6, as a commandable object does
Present_Value_Write_Priority_6(object_instance, value, priority, error_class, error_code) ==
    LET pObject == Keylist_Data(Object_List, object_instance)
        stored == Set_Field(Object_List, object_instance,
                            "Present_Value", value)
    IN  IF pObject # NULL
        THEN IF pObject.Write_Enabled /\ priority # 6
             THEN [status |-> TRUE,
                   error_class |-> error_class, error_code |-> error_code,
                   list |-> Callback_Effect(stored, object_instance),
                   callbacks |-> Callback_Call(stored, object_instance,
                                               pObject.Present_Value, value),
                   revision |-> Callback_Revision(stored, object_instance),
                   use_after_free |-> FALSE]
             ELSE [status |-> FALSE,
                   error_class |-> "ERROR_CLASS_PROPERTY",
                   error_code |-> "ERROR_CODE_WRITE_ACCESS_DENIED",
                   list |-> Object_List, callbacks |-> <<>>,
                   revision |-> Database_Revision, use_after_free |-> FALSE]
        ELSE [status |-> FALSE,
              error_class |-> "ERROR_CLASS_OBJECT",
              error_code |-> "ERROR_CODE_UNKNOWN_OBJECT",
              list |-> Object_List, callbacks |-> <<>>,
              revision |-> Database_Revision, use_after_free |-> FALSE]

\* the write path: Write_Enabled is tested, the old value is read, the
\* value is stored, then the callback is called; no step follows the call
Color_Temperature_Present_Value_Write(object_instance, value, priority, error_class, error_code) ==
    LET pObject == Keylist_Data(Object_List, object_instance)
    IN  IF pObject # NULL
        THEN IF pObject.Write_Enabled
             THEN Write_Result(TRUE, error_class, error_code,
                      Write_Run(<<Load("Write_Enabled"),
                                  Load("Present_Value"),
                                  Store("Present_Value", value),
                                  Call(pObject.Present_Value, value)>>,
                                object_instance))
             ELSE Write_Result(FALSE, "ERROR_CLASS_PROPERTY",
                      "ERROR_CODE_WRITE_ACCESS_DENIED",
                      Write_Run(<<Load("Write_Enabled")>>, object_instance))
        ELSE Write_Result(FALSE, "ERROR_CLASS_OBJECT",
                 "ERROR_CODE_UNKNOWN_OBJECT", Write_Start)

Color_Temperature_Present_Value_Set(object_instance, value) ==
    LET pObject == Keylist_Data(Object_List, object_instance)
    IN  /\ Object_List' =
               IF pObject # NULL
               THEN Set_Field(Object_List, object_instance,
                              "Present_Value", value)
               ELSE Object_List
        /\ last' = [No_Call EXCEPT !.op = "Present_Value_Set",
                       !.object_instance = object_instance,
                       !.value = value, !.status = (pObject # NULL)]
        /\ UNCHANGED <<Write_Present_Value_Callback, Database_Revision,
                       Memory>>

\* the body the setters of one field share: the record is looked up, the
\* value is stored when it passes the setter's test, and the result is true
\* when it was stored
Field_Set(op, object_instance, field, value, accepted) ==
    LET pObject == Keylist_Data(Object_List, object_instance)
    IN  /\ Object_List' =
               IF pObject # NULL /\ accepted
               THEN Set_Field(Object_List, object_instance, field, value)
               ELSE Object_List
        /\ last' = [No_Call EXCEPT !.op = op,
                       !.object_instance = object_instance,
                       !.value = value,
                       !.status = (pObject # NULL /\ accepted)]
        /\ UNCHANGED <<Write_Present_Value_Callback, Database_Revision,
                       Memory>>

Color_Temperature_Tracking_Value_Set(object_instance, value) ==
    Field_Set("Tracking_Value_Set", object_instance, "Tracking_Value",
              value, TRUE)

Color_Temperature_Min_Pres_Value_Set(object_instance, value) ==
    Field_Set("Min_Pres_Value_Set", object_instance,
              "Present_Value_Minimum", value, TRUE)

Color_Temperature_Max_Pres_Value_Set(object_instance, value) ==
    Field_Set("Max_Pres_Value_Set", object_instance,
              "Present_Value_Maximum", value, TRUE)

\* value is the caller's BACNET_COLOR_COMMAND, or NULL
Color_Temperature_Command_Set(object_instance, value) ==
    LET pObject == Keylist_Data(Object_List, object_instance)
    IN  /\ Object_List' =
               IF pObject # NULL /\ value # NULL
               THEN Set_Field(Object_List, object_instance,
                              "Color_Command", value)
               ELSE Object_List
        /\ last' = [No_Call EXCEPT !.op = "Command_Set",
                       !.object_instance = object_instance,
                       !.color_command = value,
                       !.status = (pObject # NULL /\ value # NULL)]
        /\ UNCHANGED <<Write_Present_Value_Callback, Database_Revision,
                       Memory>>

Color_Temperature_In_Progress_Set(object_instance, value) ==
    Field_Set("In_Progress_Set", object_instance, "In_Progress", value,
              value < BACNET_COLOR_OPERATION_IN_PROGRESS_MAX)

Color_Temperature_Default_Color_Temperature_Set(object_instance, value) ==
    Field_Set("Default_Color_Temperature_Set", object_instance,
              "Default_Color_Temperature", value, TRUE)

Color_Temperature_Default_Ramp_Rate_Set(object_instance, value) ==
    Field_Set("Default_Ramp_Rate_Set", object_instance,
              "Default_Ramp_Rate", value, TRUE)

Color_Temperature_Default_Step_Increment_Set(object_instance, value) ==
    Field_Set("Default_Step_Increment_Set", object_instance,
              "Default_Step_Increment", value, TRUE)

Color_Temperature_Transition_Set(object_instance, value) ==
    Field_Set("Transition_Set", object_instance, "Transition", value,
              value < BACNET_COLOR_TRANSITION_MAX)

\* the value is stored when it is 0 or in the range; the result is true
\* for every value when the instance exists
Color_Temperature_Default_Fade_Time_Set(object_instance, value) ==
    LET pObject == Keylist_Data(Object_List, object_instance)
        in_range == \/ value = 0
                    \/ /\ value >= BACNET_COLOR_FADE_TIME_MIN
                       /\ value <= BACNET_COLOR_FADE_TIME_MAX
    IN  /\ Object_List' =
               IF pObject # NULL /\ in_range
               THEN Set_Field(Object_List, object_instance,
                              "Default_Fade_Time", value)
               ELSE Object_List
        /\ last' = [No_Call EXCEPT !.op = "Default_Fade_Time_Set",
                       !.object_instance = object_instance,
                       !.value = value, !.status = (pObject # NULL)]
        /\ UNCHANGED <<Write_Present_Value_Callback, Database_Revision,
                       Memory>>

Color_Temperature_Write_Enable(object_instance) ==
    LET pObject == Keylist_Data(Object_List, object_instance)
    IN  /\ Object_List' =
               IF pObject # NULL
               THEN Set_Field(Object_List, object_instance,
                              "Write_Enabled", TRUE)
               ELSE Object_List
        /\ last' = [No_Call EXCEPT !.op = "Write_Enable",
                       !.object_instance = object_instance]
        /\ UNCHANGED <<Write_Present_Value_Callback, Database_Revision,
                       Memory>>

Color_Temperature_Write_Disable(object_instance) ==
    LET pObject == Keylist_Data(Object_List, object_instance)
    IN  /\ Object_List' =
               IF pObject # NULL
               THEN Set_Field(Object_List, object_instance,
                              "Write_Enabled", FALSE)
               ELSE Object_List
        /\ last' = [No_Call EXCEPT !.op = "Write_Disable",
                       !.object_instance = object_instance]
        /\ UNCHANGED <<Write_Present_Value_Callback, Database_Revision,
                       Memory>>

Color_Temperature_Write_Present_Value_Callback_Set(cb) ==
    /\ Write_Present_Value_Callback' = cb
    /\ last' = [No_Call EXCEPT !.op = "Callback_Set"]
    /\ UNCHANGED <<Object_List, Database_Revision, Memory>>

(***************************************************************************)
(* Object name                                                             *)
(***************************************************************************)
\* a name set that does not tell the device of the change
Name_Set_Without_Revision(object_instance, new_name) ==
    LET pObject == Keylist_Data(Object_List, object_instance)
        call == [No_Call EXCEPT !.op = "Name_Set",
                    !.object_instance = object_instance,
                    !.new_name = new_name]
    IN  IF pObject # NULL /\ new_name # "NULL"
        THEN LET object_name == characterstring_init_ansi(Memory[new_name])
                 found == Device_Valid_Object_Name(object_name)
             IN  IF found # {}
                 THEN \E f \in found :
                        /\ last' = [call EXCEPT !.status =
                               (f.type = OBJECT_COLOR
                                   /\ f.instance = object_instance)]
                        /\ UNCHANGED <<Object_List, Database_Revision,
                                       Write_Present_Value_Callback, Memory>>
                 ELSE /\ Object_List' = Set_Field(Object_List,
                             object_instance, "Object_Name", new_name)
                      /\ last' = [call EXCEPT !.status = TRUE]
                      /\ UNCHANGED <<Database_Revision,
                                     Write_Present_Value_Callback, Memory>>
        ELSE /\ last' = call
             /\ UNCHANGED <<Object_List, Database_Revision,
                            Write_Present_Value_Callback, Memory>>

\* new_name is the id of a caller's buffer, or "NULL"
Color_Temperature_Name_Set(object_instance, new_name) ==
    LET pObject == Keylist_Data(Object_List, object_instance)
        call == [No_Call EXCEPT !.op = "Name_Set",
                    !.object_instance = object_instance,
                    !.new_name = new_name]
    IN  IF pObject # NULL /\ new_name # "NULL"
        THEN LET object_name == characterstring_init_ansi(Memory[new_name])
                 found == Device_Valid_Object_Name(object_name)
             IN  IF found # {}
                 THEN \E f \in found :
                        /\ last' = [call EXCEPT !.status =
                               (f.type = OBJECT_COLOR
                                   /\ f.instance = object_instance)]
                        /\ UNCHANGED <<Object_List, Database_Revision,
                                       Write_Present_Value_Callback, Memory>>
                 ELSE /\ Object_List' = Set_Field(Object_List,
                             object_instance, "Object_Name", new_name)
                      /\ Database_Revision' = Device_Inc_Database_Revision
                      /\ last' = [call EXCEPT !.status = TRUE]
                      /\ UNCHANGED <<Write_Present_Value_Callback, Memory>>
        ELSE /\ last' = call
             /\ UNCHANGED <<Object_List, Database_Revision,
                            Write_Present_Value_Callback, Memory>>

\* new_name is the id of a caller's buffer, or "NULL": the record keeps the
\* pointer, not a copy of the text
Color_Temperature_Description_Set(object_instance, new_name) ==
    LET pObject == Keylist_Data(Object_List, object_instance)
        call == [No_Call EXCEPT !.op = "Description_Set",
                    !.object_instance = object_instance,
                    !.new_name = new_name]
    IN  IF pObject # NULL /\ new_name # "NULL"
        THEN /\ Object_List' = Set_Field(Object_List, object_instance,
                                         "Description", new_name)
             /\ last' = [call EXCEPT !.status = TRUE]
             /\ UNCHANGED <<Database_Revision,
                            Write_Present_Value_Callback, Memory>>
        ELSE /\ last' = call
             /\ UNCHANGED <<Object_List, Database_Revision,
                            Write_Present_Value_Callback, Memory>>

(***************************************************************************)
(* ReadProperty and WriteProperty handlers                                 *)
(***************************************************************************)
\* an object identifier that carries the type of the Color object
Object_Identifier_Of_Color(rpdata) ==
    encode_application_object_id(OBJECT_COLOR, rpdata.object_instance)

\* case PROP_OBJECT_IDENTIFIER: the type and the instance of the request
Object_Identifier_Encoding(rpdata) ==
    encode_application_object_id(rpdata.object_type, rpdata.object_instance)

\* the bytes the property's case of the switch encodes, NULL for the
\* default case; char_string is what the local variable of that name holds
\* when the handler starts
Read_Property_Encoding(rpdata, char_string) ==
    LET p == rpdata.object_property
        i == rpdata.object_instance
    IN  CASE p = "PROP_OBJECT_IDENTIFIER" ->
                [apdu |-> Object_Identifier_Encoding(rpdata)]
          [] p = "PROP_OBJECT_NAME" ->
                [apdu |-> encode_application_character_string(
                    IF Color_Temperature_Object_Name(i).status
                    THEN characterstring_init_ansi(
                             Color_Temperature_Object_Name(i).text)
                    ELSE char_string)]
          [] p = "PROP_OBJECT_TYPE" ->
                [apdu |-> encode_application_enumerated(rpdata.object_type)]
          [] p = "PROP_PRESENT_VALUE" ->
                [apdu |-> encode_application_unsigned(
                    Color_Temperature_Present_Value(i))]
          [] p = "PROP_MIN_PRES_VALUE" ->
                [apdu |-> encode_application_unsigned(
                    Color_Temperature_Min_Pres_Value(i))]
          [] p = "PROP_MAX_PRES_VALUE" ->
                [apdu |-> encode_application_unsigned(
                    Color_Temperature_Max_Pres_Value(i))]
          [] p = "PROP_TRACKING_VALUE" ->
                [apdu |-> encode_application_unsigned(
                    Color_Temperature_Tracking_Value(i))]
          [] p = "PROP_COLOR_COMMAND" ->
                [apdu |-> IF Color_Temperature_Command(
                                 i, [operation |-> 0]).status
                          THEN color_command_encode(
                                   Color_Temperature_Command(
                                       i, [operation |-> 0]).value)
                          ELSE <<>>]
          [] p = "PROP_IN_PROGRESS" ->
                [apdu |-> encode_application_enumerated(
                    Color_Temperature_In_Progress(i))]
          [] p = "PROP_DEFAULT_COLOR_TEMPERATURE" ->
                [apdu |-> encode_application_unsigned(
                    Color_Temperature_Default_Color_Temperature(i))]
          [] p = "PROP_DEFAULT_FADE_TIME" ->
                [apdu |-> encode_application_unsigned(
                    Color_Temperature_Default_Fade_Time(i))]
          [] p = "PROP_DEFAULT_RAMP_RATE" ->
                [apdu |-> encode_application_unsigned(
                    Color_Temperature_Default_Ramp_Rate(i))]
          [] p = "PROP_DEFAULT_STEP_INCREMENT" ->
                [apdu |-> encode_application_unsigned(
                    Color_Temperature_Default_Step_Increment(i))]
          [] p = "PROP_TRANSITION" ->
                [apdu |-> encode_application_enumerated(
                    Color_Temperature_Transition(i))]
          [] p = "PROP_DESCRIPTION" ->
                [apdu |-> encode_application_character_string(
                    characterstring_init_ansi(
                        IF Color_Temperature_Description(i) = NULL
                        THEN <<>>
                        ELSE Color_Temperature_Description(i).text))]
          [] OTHER -> NULL

\* an array rule that lets every index of a read through
Read_Array_Rule_Absent(rpdata, apdu_len) == FALSE

\* "only array properties can have array options", for a read
Read_Not_An_Array(rpdata, apdu_len) ==
    /\ apdu_len >= 0
    /\ rpdata.object_property # "PROP_PRIORITY_ARRAY"
    /\ rpdata.object_property # "PROP_EVENT_TIME_STAMPS"
    /\ rpdata.array_index # BACNET_ARRAY_ALL

\* the outcome of Color_Temperature_Read_Property: the length returned, the
\* bytes written to the buffer and the error pair of the request
Read_Property(rpdata, char_string) ==
    IF rpdata = NULL
    THEN [apdu_len |-> 0, apdu |-> <<>>,
          error_class |-> "UNSET", error_code |-> "UNSET"]
    ELSE IF rpdata.application_data = "NULL"
            \/ rpdata.application_data_len = 0
    THEN [apdu_len |-> 0, apdu |-> <<>>,
          error_class |-> rpdata.error_class,
          error_code |-> rpdata.error_code]
    ELSE
    LET enc == Read_Property_Encoding(rpdata, char_string)
        apdu == IF enc = NULL THEN <<>> ELSE enc.apdu
        apdu_len == IF enc = NULL THEN BACNET_STATUS_ERROR ELSE Len(apdu)
        class1 == IF enc = NULL THEN "ERROR_CLASS_PROPERTY"
                  ELSE rpdata.error_class
        code1 == IF enc = NULL THEN "ERROR_CODE_UNKNOWN_PROPERTY"
                 ELSE rpdata.error_code
    IN  IF Read_Not_An_Array(rpdata, apdu_len)
        THEN [apdu_len |-> BACNET_STATUS_ERROR, apdu |-> apdu,
              error_class |-> "ERROR_CLASS_PROPERTY",
              error_code |-> "ERROR_CODE_PROPERTY_IS_NOT_AN_ARRAY"]
        ELSE [apdu_len |-> apdu_len, apdu |-> apdu,
              error_class |-> class1, error_code |-> code1]

\* the record of a read: the request as the caller passed it and the
\* outcome r
Read_Call(rpdata, r) ==
    IF rpdata = NULL
    THEN [No_Call EXCEPT !.op = "Read_Property", !.rpdata = "NULL",
             !.apdu_len = r.apdu_len, !.apdu = r.apdu,
             !.error_class = r.error_class, !.error_code = r.error_code]
    ELSE [No_Call EXCEPT !.op = "Read_Property", !.rpdata = "rpdata",
             !.object_type = rpdata.object_type,
             !.object_instance = rpdata.object_instance,
             !.object_property = rpdata.object_property,
             !.array_index = rpdata.array_index,
             !.buffer = rpdata.application_data,
             !.application_data_len = rpdata.application_data_len,
             !.apdu_len = r.apdu_len, !.apdu = r.apdu,
             !.error_class = r.error_class, !.error_code = r.error_code]

\* a read that copies the present value to the tracking value
Read_Property_Tracks(rpdata, char_string) ==
    \E r \in {Read_Property(rpdata, char_string)} :
        /\ last' = Read_Call(rpdata, r)
        /\ Object_List' =
               IF rpdata # NULL
                  /\ Color_Temperature_Valid_Instance(rpdata.object_instance)
               THEN Set_Field(Object_List, rpdata.object_instance,
                        "Tracking_Value",
                        Color_Temperature_Present_Value(
                            rpdata.object_instance))
               ELSE Object_List
        /\ UNCHANGED <<Write_Present_Value_Callback, Database_Revision,
                       Memory>>

Color_Temperature_Read_Property(rpdata, char_string) ==
    \E r \in {Read_Property(rpdata, char_string)} :
        /\ last' = Read_Call(rpdata, r)
        /\ UNCHANGED <<Object_List, Write_Present_Value_Callback,
                       Database_Revision, Memory>>

\* a decode test that takes only a length of zero for a failure
Decode_Failed_On_Zero(value) == value.len = 0

\* "error while decoding": the decoder returned a negative length
Decode_Failed(value) == value.len < 0

\* the read-only cases of the switch, with DESCRIPTION left out
Read_Only_Without_Description ==
    {"PROP_OBJECT_IDENTIFIER", "PROP_OBJECT_TYPE", "PROP_OBJECT_NAME"}

\* the cases of the switch that answer WRITE_ACCESS_DENIED
Read_Only_Properties ==
    {"PROP_OBJECT_IDENTIFIER", "PROP_OBJECT_TYPE", "PROP_OBJECT_NAME",
     "PROP_DESCRIPTION"}

\* a type test of the present value that expects a real
Present_Value_Type_Real(wp_data, value) ==
    write_property_type_valid(wp_data, value, BACNET_APPLICATION_TAG_REAL)

\* case PROP_PRESENT_VALUE: the decoded value must be an unsigned integer
Present_Value_Type_Valid(wp_data, value) ==
    write_property_type_valid(wp_data, value,
                              BACNET_APPLICATION_TAG_UNSIGNED_INT)

\* an array rule that is applied to the priority array only
Write_Array_Rule_Priority_Only(wp_data) ==
    /\ wp_data.object_property = "PROP_PRIORITY_ARRAY"
    /\ wp_data.array_index # BACNET_ARRAY_ALL

\* "only array properties can have array options", for a write
Write_Not_An_Array(wp_data) ==
    /\ wp_data.object_property # "PROP_PRIORITY_ARRAY"
    /\ wp_data.object_property # "PROP_EVENT_TIME_STAMPS"
    /\ wp_data.array_index # BACNET_ARRAY_ALL

\* the outcome of Color_Temperature_Write_Property: the status, the error
\* pair of the request, the store and the callback invocations
Write_Property(wp_data) ==
    LET value == bacapp_decode_application_data(
                     wp_data.application_data, wp_data.application_data_len)
        keep == [status |-> FALSE, error_class |-> wp_data.error_class,
                 error_code |-> wp_data.error_code,
                 list |-> Object_List, callbacks |-> <<>>,
                 revision |-> Database_Revision, use_after_free |-> FALSE]
    IN  IF Decode_Failed(value)
        THEN [keep EXCEPT !.error_class = "ERROR_CLASS_PROPERTY",
                          !.error_code = "ERROR_CODE_VALUE_OUT_OF_RANGE"]
        ELSE IF Write_Not_An_Array(wp_data)
        THEN [keep EXCEPT !.error_class = "ERROR_CLASS_PROPERTY",
                          !.error_code = "ERROR_CODE_PROPERTY_IS_NOT_AN_ARRAY"]
        ELSE IF wp_data.object_property = "PROP_PRESENT_VALUE"
        THEN LET valid == Present_Value_Type_Valid(wp_data, value)
             IN  IF valid.status
                 THEN Color_Temperature_Present_Value_Write(
                          wp_data.object_instance, value.value,
                          wp_data.priority, wp_data.error_class,
                          wp_data.error_code)
                 ELSE [keep EXCEPT
                          !.error_class = valid.wp_data.error_class,
                          !.error_code = valid.wp_data.error_code]
        ELSE IF wp_data.object_property \in Read_Only_Properties
        THEN [keep EXCEPT !.error_class = "ERROR_CLASS_PROPERTY",
                          !.error_code = "ERROR_CODE_WRITE_ACCESS_DENIED"]
        ELSE [keep EXCEPT !.error_class = "ERROR_CLASS_PROPERTY",
                          !.error_code = "ERROR_CODE_UNKNOWN_PROPERTY"]

Color_Temperature_Write_Property(wp_data) ==
    \E r \in {Write_Property(wp_data)} :
        /\ Object_List' = r.list
        /\ last' = [No_Call EXCEPT !.op = "Write_Property",
                       !.object_type = wp_data.object_type,
                       !.object_instance = wp_data.object_instance,
                       !.object_property = wp_data.object_property,
                       !.array_index = wp_data.array_index,
                       !.priority = wp_data.priority,
                       !.application_data = wp_data.application_data,
                       !.application_data_len = wp_data.application_data_len,
                       !.status = r.status,
                       !.error_class = r.error_class,
                       !.error_code = r.error_code,
                       !.callbacks = r.callbacks,
                       !.use_after_free = r.use_after_free]
        /\ Database_Revision' = r.revision
        /\ UNCHANGED <<Write_Present_Value_Callback, Memory>>

(***************************************************************************)
(* Create and delete                                                       *)
(***************************************************************************)
\* a wildcard that appends after the highest instance of the store
Wildcard_After_Maximum ==
    IF Keylist_Count(Object_List) = 0 THEN 1
    ELSE Object_List.nodes[Len(Object_List.nodes)].key + 1

\* the instance a wildcard create takes: the lowest free key from 1 up
Wildcard_Instance == Keylist_Next_Empty_Key(Object_List, 1)

\* a lookup before the allocation that finds no record
Existing_Record_Never(instance) == NULL

\* the record the store holds for the instance before the allocation
Existing_Record(instance) == Keylist_Data(Object_List, instance)

\* a create that counts the new record in the revision before the list
\* takes it
Create_Counts_Before_Add(object_instance, alloc) ==
    LET call == [No_Call EXCEPT !.op = "Create",
                    !.object_instance = object_instance]
        instance == IF object_instance = BACNET_MAX_INSTANCE
                    THEN Wildcard_Instance
                    ELSE object_instance
    IN  IF object_instance > BACNET_MAX_INSTANCE
        THEN /\ last' = [call EXCEPT !.instance = BACNET_MAX_INSTANCE]
             /\ UNCHANGED <<Object_List, Database_Revision,
                            Write_Present_Value_Callback, Memory>>
        ELSE IF Existing_Record(instance) # NULL
        THEN /\ last' = [call EXCEPT !.instance = instance]
             /\ UNCHANGED <<Object_List, Database_Revision,
                            Write_Present_Value_Callback, Memory>>
        ELSE IF alloc = "calloc"
        THEN /\ last' = [call EXCEPT !.instance = BACNET_MAX_INSTANCE]
             /\ UNCHANGED <<Object_List, Database_Revision,
                            Write_Present_Value_Callback, Memory>>
        ELSE IF alloc = "add" \/ Object_List = NULL
        THEN /\ Database_Revision' = Device_Inc_Database_Revision
             /\ last' = [call EXCEPT !.instance = BACNET_MAX_INSTANCE]
             /\ UNCHANGED <<Object_List, Write_Present_Value_Callback,
                            Memory>>
        ELSE /\ Object_List' =
                    Keylist_Data_Add(Object_List, instance, New_Object_Data)
             /\ Database_Revision' = Device_Inc_Database_Revision
             /\ last' = [call EXCEPT !.instance = instance]
             /\ UNCHANGED <<Write_Present_Value_Callback, Memory>>

\* alloc tells which allocation fails, if any: "calloc" (the record),
\* "add" (the node of the key list) or "none"
Color_Temperature_Create(object_instance, alloc) ==
    LET call == [No_Call EXCEPT !.op = "Create",
                    !.object_instance = object_instance]
        instance == IF object_instance = BACNET_MAX_INSTANCE
                    THEN Wildcard_Instance
                    ELSE object_instance
    IN  IF object_instance > BACNET_MAX_INSTANCE
        THEN /\ last' = [call EXCEPT !.instance = BACNET_MAX_INSTANCE]
             /\ UNCHANGED <<Object_List, Database_Revision,
                            Write_Present_Value_Callback, Memory>>
        ELSE IF Existing_Record(instance) # NULL
        THEN /\ last' = [call EXCEPT !.instance = instance]
             /\ UNCHANGED <<Object_List, Database_Revision,
                            Write_Present_Value_Callback, Memory>>
        ELSE IF alloc # "none" \/ Object_List = NULL
        THEN /\ last' = [call EXCEPT !.instance = BACNET_MAX_INSTANCE]
             /\ UNCHANGED <<Object_List, Database_Revision,
                            Write_Present_Value_Callback, Memory>>
        ELSE /\ Object_List' =
                    Keylist_Data_Add(Object_List, instance, New_Object_Data)
             /\ Database_Revision' = Device_Inc_Database_Revision
             /\ last' = [call EXCEPT !.instance = instance]
             /\ UNCHANGED <<Write_Present_Value_Callback, Memory>>

\* a delete that reports every instance as found
Delete_Reports_Found(object_instance) ==
    /\ Object_List' = Keylist_Data_Delete(Object_List, object_instance)
    /\ Database_Revision' =
           IF Keylist_Data(Object_List, object_instance) # NULL
           THEN Device_Inc_Database_Revision
           ELSE Database_Revision
    /\ last' = [No_Call EXCEPT !.op = "Delete",
                   !.object_instance = object_instance, !.status = TRUE]
    /\ UNCHANGED <<Write_Present_Value_Callback, Memory>>

\* a delete that does not count in the revision
Delete_Without_Revision(object_instance) ==
    LET pObject == Keylist_Data(Object_List, object_instance)
        call == [No_Call EXCEPT !.op = "Delete",
                    !.object_instance = object_instance]
    IN  IF pObject # NULL
        THEN /\ Object_List' =
                    Keylist_Data_Delete(Object_List, object_instance)
             /\ last' = [call EXCEPT !.status = TRUE]
             /\ UNCHANGED <<Database_Revision,
                            Write_Present_Value_Callback, Memory>>
        ELSE /\ last' = call
             /\ UNCHANGED <<Object_List, Database_Revision,
                            Write_Present_Value_Callback, Memory>>

Color_Temperature_Delete(object_instance) ==
    LET pObject == Keylist_Data(Object_List, object_instance)
        call == [No_Call EXCEPT !.op = "Delete",
                    !.object_instance = object_instance]
    IN  IF pObject # NULL
        THEN /\ Object_List' =
                    Keylist_Data_Delete(Object_List, object_instance)
             /\ Database_Revision' = Device_Inc_Database_Revision
             /\ last' = [call EXCEPT !.status = TRUE]
             /\ UNCHANGED <<Write_Present_Value_Callback, Memory>>
        ELSE /\ last' = call
             /\ UNCHANGED <<Object_List, Database_Revision,
                            Write_Present_Value_Callback, Memory>>

(***************************************************************************)
(* Inputs of the calls                                                     *)
(***************************************************************************)
\* instance numbers the callers name
RECURSIVE Cleanup_Loop(_, _)
\* the revision after the loop of Cleanup: one record is popped, freed
\* and counted at a time, until the pop finds none
Cleanup_Loop(list, revision) ==
    IF Keylist_Count(list) = 0 THEN revision
    ELSE Cleanup_Loop(Keylist_Data_Pop(list), revision + 1)

\* a cleanup that counts one change for the whole store
Cleanup_Counts_Once ==
    /\ Database_Revision' =
           IF Object_List # NULL /\ Keylist_Count(Object_List) > 0
           THEN Device_Inc_Database_Revision
           ELSE Database_Revision
    /\ Object_List' = NULL
    /\ last' = [No_Call EXCEPT !.op = "Cleanup"]
    /\ UNCHANGED <<Write_Present_Value_Callback, Memory>>

\* every record is popped, freed and counted in the revision, then the
\* list is deleted
Color_Temperature_Cleanup ==
    /\ Database_Revision' =
           IF Object_List # NULL
           THEN Cleanup_Loop(Object_List, Database_Revision)
           ELSE Database_Revision
    /\ Object_List' = NULL
    /\ last' = [No_Call EXCEPT !.op = "Cleanup"]
    /\ UNCHANGED <<Write_Present_Value_Callback, Memory>>

\* a new list replaces the one the module held; alloc is "none" or "calloc"
Color_Temperature_Init(alloc) ==
    /\ Object_List' = IF alloc = "none" THEN Keylist_Create ELSE NULL
    /\ last' = [No_Call EXCEPT !.op = "Init", !.status = (alloc = "none")]
    /\ UNCHANGED <<Write_Present_Value_Callback, Database_Revision, Memory>>

Keys == {1, 2}

\* the number of records and the revision of the store specification
MaxStore == 3

MaxStoreRevision == 6

\* the number of record fields the accessor specification changes
MaxChanges == 2

\* instances of the store specification
Store_Keys == {1, 2, 3}

\* instance numbers passed to Create in the store specification
Store_Create_Inputs ==
    Store_Keys \cup {BACNET_MAX_INSTANCE, BACNET_MAX_INSTANCE + 1}

\* instance numbers passed to Create: keys, the wildcard, one out of range
Create_Inputs == Keys \cup {BACNET_MAX_INSTANCE, BACNET_MAX_INSTANCE + 1}

\* instance numbers of requests: keys, zero and the highest of 22 bits
Request_Instances == Keys \cup {0, BACNET_MAX_INSTANCE}

\* object types of requests
Request_Types == {0, OBJECT_COLOR, OBJECT_COLOR_TEMPERATURE, BACNET_MAX_OBJECT}

\* present values written: the values around the width thresholds
Values == {0, 255, 256, 4000, 65535, 65536}

\* write priorities: none, 1..16
Priorities == BACNET_NO_PRIORITY .. BACNET_MAX_PRIORITY

\* the caller's text buffers: "A", "A" again, the default names of
\* instances 1 and 2, and the name of the device's Color object 1
Buffers ==
    [bufA |-> <<65>>, bufA2 |-> <<65>>,
     bufDef1 |-> Default_Name(1), bufDef2 |-> Default_Name(2),
     bufColor1 |-> Color_1_Name]

\* a byte of an object that was never written: it stands for every value
\* 0 .. 255, whatever the stack held before the call
UNINITIALIZED == "uninitialized"

\* a BACNET_CHARACTER_STRING that was never written and whose length field
\* reads n: its encoding byte and its n bytes are uninitialized
Uninitialized_String(n) ==
    [encoding |-> UNINITIALIZED, value |-> [k \in 1 .. n |-> UNINITIALIZED]]

\* what an uninitialized BACNET_CHARACTER_STRING may hold: any encoding
\* byte, any bytes and any length field. The length field is of type
\* size_t; the lengths beyond the capacity of the array all lead the
\* encoder the same way, and MAX_CHARACTER_STRING_BYTES + 1 stands for them.
Stack_Garbage ==
    {Uninitialized_String(n) : n \in 0 .. MAX_CHARACTER_STRING_BYTES + 1}

\* encoded values that decode: unsigned values, a real, an enumerated
Decodable_Data ==
    {encode_application_unsigned(v) : v \in Values}
        \cup {encode_application_real(1082130432),
              encode_application_enumerated(1)}

\* encoded values that do not decode: an unsigned cut short, a tag whose
\* extended length is missing, an empty buffer
Undecodable_Data == {<<34, 15>>, <<37>>, <<>>}

\* property ids of requests: the listed ones, the two array properties the
\* handlers name, and one the type does not have
Properties ==
    Listed_Properties
        \cup {"PROP_PRIORITY_ARRAY", "PROP_EVENT_TIME_STAMPS", "PROP_UNITS"}

Array_Indexes == {BACNET_ARRAY_ALL, 0, 1}

\* sizes of the output buffer of a read: none, MAX_APDU
Buffer_Lengths == {0, 1476}

Read_Request(type, instance, property, index, len) ==
    [object_type |-> type, object_instance |-> instance,
     object_property |-> property, array_index |-> index,
     application_data |-> "apdu", application_data_len |-> len,
     error_class |-> "UNSET", error_code |-> "UNSET"]

\* the request with no output buffer
Read_Request_No_Buffer(rpdata) == [rpdata EXCEPT !.application_data = "NULL"]

Write_Request(instance, property, index, priority, data) ==
    [object_type |-> OBJECT_COLOR_TEMPERATURE, object_instance |-> instance,
     object_property |-> property, array_index |-> index,
     priority |-> priority, application_data |-> data,
     application_data_len |-> Len(data),
     error_class |-> "UNSET", error_code |-> "UNSET"]

\* the write requests the callers of the model make: present-value writes
\* with and without an array index and a priority, of unsigned values, of a
\* value of another type and of a value that does not decode; writes of
\* other properties
Write_Inputs ==
    {Write_Request(i, "PROP_PRESENT_VALUE", x, q, d) :
        <<i, x, q, d>> \in
            Keys \X {BACNET_ARRAY_ALL, 1}
                 \X {BACNET_NO_PRIORITY, BACNET_MAX_PRIORITY}
                 \X {encode_application_unsigned(4000)}}
    \cup {Write_Request(i, "PROP_PRESENT_VALUE", x, BACNET_NO_PRIORITY, d) :
        <<i, x, d>> \in
            Keys \X {BACNET_ARRAY_ALL, 1}
                 \X {encode_application_unsigned(65536),
                     encode_application_real(1082130432), <<34, 15>>}}
    \cup {Write_Request(1, p, x, BACNET_NO_PRIORITY,
                        encode_application_unsigned(4000)) :
        <<p, x>> \in
            {"PROP_OBJECT_NAME", "PROP_TRACKING_VALUE",
             "PROP_PRIORITY_ARRAY", "PROP_UNITS"}
                 \X {BACNET_ARRAY_ALL, 1}}

\* present-value writes of every value to instance 1, of one value to the
\* other instances
Value_Write_Inputs ==
    {Write_Request(1, "PROP_PRESENT_VALUE", BACNET_ARRAY_ALL,
                   BACNET_NO_PRIORITY, encode_application_unsigned(v)) :
        v \in Values}
    \cup {Write_Request(i, "PROP_PRESENT_VALUE", BACNET_ARRAY_ALL,
                   BACNET_NO_PRIORITY, encode_application_unsigned(4000)) :
        i \in Keys}

\* the read requests the callers of the model make: every property of a
\* key with and without an array index, object identifiers of every type
\* and instance, a read into an empty buffer, a read with no buffer, a
\* call with no request
Read_Inputs ==
    {Read_Request(OBJECT_COLOR_TEMPERATURE, i, p, x, 1476) :
        <<i, p, x>> \in Keys \X Properties \X {BACNET_ARRAY_ALL, 1}}
    \cup {Read_Request(t, i, "PROP_OBJECT_IDENTIFIER", BACNET_ARRAY_ALL, 1476) :
        <<t, i>> \in Request_Types \X Request_Instances}
    \cup {Read_Request(OBJECT_COLOR_TEMPERATURE, 1, p, x, 0) :
        <<p, x>> \in {"PROP_PRESENT_VALUE", "PROP_UNITS"}
                         \X {BACNET_ARRAY_ALL, 1}}
    \cup {Read_Request_No_Buffer(
              Read_Request(OBJECT_COLOR_TEMPERATURE, 1, p, x, 1476)) :
        <<p, x>> \in {"PROP_PRESENT_VALUE", "PROP_UNITS"}
                         \X {BACNET_ARRAY_ALL, 1}}
    \cup {NULL}

(***************************************************************************)
(* Specifications                                                          *)
(***************************************************************************)
\* no present value was written
Not_Written == {}

\* the state after Color_Temperature_Init()
Init ==
    /\ Object_List = Keylist_Create
    /\ Write_Present_Value_Callback = "NULL"
    /\ Database_Revision = 0
    /\ Memory = Buffers
    /\ last = No_Call
    /\ written = [i \in Keys |-> Not_Written]

\* the number of records and the revision stay within the bounds
Within_Bounds ==
    /\ Keylist_Count(Object_List') <= MaxCount
    /\ Database_Revision' <= MaxRevision

Create == \E i \in Create_Inputs, alloc \in {"none", "calloc", "add"} :
    /\ Color_Temperature_Create(i, alloc)
    /\ Within_Bounds
    /\ UNCHANGED written

Delete == \E i \in Keys :
    /\ Color_Temperature_Delete(i)
    /\ Within_Bounds
    /\ written' = IF last'.status THEN [written EXCEPT ![i] = Not_Written]
                  ELSE written

Write_Enable == \E i \in Keys :
    /\ Color_Temperature_Write_Enable(i)
    /\ UNCHANGED written

Write_Disable == \E i \in Keys :
    /\ Color_Temperature_Write_Disable(i)
    /\ UNCHANGED written

Callback_Set == \E cb \in {"NULL", "record"} :
    /\ Color_Temperature_Write_Present_Value_Callback_Set(cb)
    /\ UNCHANGED written

Present_Value_Set == \E i \in Keys :
    /\ Color_Temperature_Present_Value_Set(i, 4000)
    /\ written' = IF last'.status THEN [written EXCEPT ![i] = {4000}]
                  ELSE written

Name_Set == \E i \in Keys, n \in DOMAIN Buffers \cup {"NULL"} :
    /\ Color_Temperature_Name_Set(i, n)
    /\ Within_Bounds
    /\ UNCHANGED written

\* the history after a write: it keeps the value that a successful
\* present-value write sent
Written_After(wp) ==
    IF last'.status /\ wp.object_property = "PROP_PRESENT_VALUE"
    THEN [written EXCEPT ![wp.object_instance] =
             {FromBigEndian(SubSeq(wp.application_data, 2,
                                   Len(wp.application_data)))}]
    ELSE written

Write == \E wp \in Write_Inputs :
    /\ Color_Temperature_Write_Property(wp)
    /\ written' = Written_After(wp)

Write_Value == \E wp \in Value_Write_Inputs :
    /\ Color_Temperature_Write_Property(wp)
    /\ written' = Written_After(wp)

\* reads of the present value
Read_Present_Value == \E i \in Keys :
    /\ Color_Temperature_Read_Property(
           Read_Request(OBJECT_COLOR_TEMPERATURE, i, "PROP_PRESENT_VALUE",
                        BACNET_ARRAY_ALL, 1476),
           [encoding |-> 0, value |-> <<>>])
    /\ UNCHANGED written

\* the request makes the handler encode its local char_string unwritten:
\* the name of a missing instance, read into a buffer
Reads_Uninitialized(rp) ==
    /\ rp # NULL
    /\ rp.application_data # "NULL"
    /\ rp.application_data_len # 0
    /\ rp.object_property = "PROP_OBJECT_NAME"
    /\ ~Color_Temperature_Object_Name(rp.object_instance).status

\* the requests of Read_Inputs whose outcome does not depend on what the
\* stack held
Written_Reads == {rp \in Read_Inputs : ~Reads_Uninitialized(rp)}

\* the name of instance 2, read with array index ALL
Unwritten_Reads ==
    {Read_Request(OBJECT_COLOR_TEMPERATURE, 2, "PROP_OBJECT_NAME",
                  BACNET_ARRAY_ALL, 1476)}

\* a read of one of the requests; when the handler encodes its local
\* char_string unwritten, every content of the local is an outcome
Read(requests) == \E rp \in requests :
    \E g \in IF Reads_Uninitialized(rp) THEN Stack_Garbage
              ELSE {Uninitialized_String(0)} :
        /\ Color_Temperature_Read_Property(rp, g)
        /\ UNCHANGED written

\* reads of the name of an instance that is not in the store
NextGarbage ==
    \/ Read(Unwritten_Reads)

SpecGarbage == Init /\ [][NextGarbage]_vars

\* the write path: create, delete, enable, disable, write, read back
Next ==
    \/ Create
    \/ Delete
    \/ Write_Enable
    \/ Write_Disable
    \/ Callback_Set
    \/ Present_Value_Set
    \/ Write
    \/ Read_Present_Value

Spec == Init /\ [][Next]_vars

\* the read path
NextRead ==
    \/ Create
    \/ Delete
    \/ Present_Value_Set
    \/ Read(Written_Reads)

SpecRead == Init /\ [][NextRead]_vars

\* present values of every width: write, read back
NextValue ==
    \/ Create
    \/ Delete
    \/ Write_Enable
    \/ Present_Value_Set
    \/ Write_Value
    \/ Read_Present_Value

SpecValue == Init /\ [][NextValue]_vars

\* writes of every kind, to instances write-enabled or not
NextWrite ==
    \/ Create
    \/ Delete
    \/ Write_Enable
    \/ Write

SpecWrite == Init /\ [][NextWrite]_vars

\* the two handlers: writes of every kind and reads of every kind
NextHandlers ==
    \/ Create
    \/ Delete
    \/ Write_Enable
    \/ Write
    \/ Read(Written_Reads)

SpecHandlers == Init /\ [][NextHandlers]_vars

\* object names
NextName ==
    \/ Create
    \/ Delete
    \/ Name_Set

SpecName == Init /\ [][NextName]_vars

\* the store: three instances, the wildcard, cleanup and initialisation
Store_Within_Bounds ==
    /\ Keylist_Count(Object_List') <= MaxStore
    /\ Database_Revision' <= MaxStoreRevision

\* the history without the values written to the instances that left
Written_Without(gone) ==
    [k \in Keys |-> IF k \in gone THEN Not_Written ELSE written[k]]

Store_Create == \E i \in Store_Create_Inputs, alloc \in {"none", "calloc", "add"} :
    /\ Color_Temperature_Create(i, alloc)
    /\ Store_Within_Bounds
    /\ UNCHANGED written

Store_Delete == \E i \in Store_Keys :
    /\ Color_Temperature_Delete(i)
    /\ Store_Within_Bounds
    /\ written' = Written_Without(IF last'.status THEN {i} ELSE {})

Store_Cleanup ==
    /\ Color_Temperature_Cleanup
    /\ Store_Within_Bounds
    /\ written' = Written_Without(Keys)

Store_Init == \E alloc \in {"none", "calloc"} :
    /\ Color_Temperature_Init(alloc)
    /\ written' = Written_Without(Keys)

NextStore ==
    \/ Store_Create
    \/ Store_Delete
    \/ Store_Cleanup
    \/ Store_Init
    \/ Present_Value_Set
    \/ Write_Enable

SpecStore == Init /\ [][NextStore]_vars

\* the instance every setter and both handlers are called on; the other
\* instance is reached by Create, Present_Value_Set and Write_Enable
Setter_Keys == {1}

\* the number of fields of the records of Setter_Keys that differ from the
\* record Create builds
Changed_Count(list) ==
    Cardinality({<<k, f>> \in Setter_Keys \X (DOMAIN New_Object_Data) :
        /\ Keylist_Data(list, k) # NULL
        /\ Keylist_Data(list, k)[f] # New_Object_Data[f]})

\* the number of changed fields of those records stays within the bound
Access_Within_Bounds ==
    /\ Within_Bounds
    /\ Changed_Count(Object_List') <= MaxChanges

Access_Create == \E i \in Keys :
    /\ Color_Temperature_Create(i, "none")
    /\ Access_Within_Bounds
    /\ UNCHANGED written

Tracking_Value_Set == \E i \in Setter_Keys :
    /\ Color_Temperature_Tracking_Value_Set(i, 1234)
    /\ Access_Within_Bounds
    /\ UNCHANGED written

Min_Pres_Value_Set == \E i \in Setter_Keys :
    /\ Color_Temperature_Min_Pres_Value_Set(i, 1000)
    /\ Access_Within_Bounds
    /\ UNCHANGED written

Max_Pres_Value_Set == \E i \in Setter_Keys :
    /\ Color_Temperature_Max_Pres_Value_Set(i, 30000)
    /\ Access_Within_Bounds
    /\ UNCHANGED written

Command_Set == \E i \in Setter_Keys, v \in {NULL, [operation |-> 6]} :
    /\ Color_Temperature_Command_Set(i, v)
    /\ Access_Within_Bounds
    /\ UNCHANGED written

In_Progress_Set == \E i \in Setter_Keys, v \in {2, BACNET_COLOR_OPERATION_IN_PROGRESS_MAX} :
    /\ Color_Temperature_In_Progress_Set(i, v)
    /\ Access_Within_Bounds
    /\ UNCHANGED written

Default_Color_Temperature_Set == \E i \in Setter_Keys :
    /\ Color_Temperature_Default_Color_Temperature_Set(i, 2700)
    /\ Access_Within_Bounds
    /\ UNCHANGED written

Default_Ramp_Rate_Set == \E i \in Setter_Keys :
    /\ Color_Temperature_Default_Ramp_Rate_Set(i, 7)
    /\ Access_Within_Bounds
    /\ UNCHANGED written

Default_Step_Increment_Set == \E i \in Setter_Keys :
    /\ Color_Temperature_Default_Step_Increment_Set(i, 9)
    /\ Access_Within_Bounds
    /\ UNCHANGED written

Transition_Set == \E i \in Setter_Keys, v \in {1, BACNET_COLOR_TRANSITION_MAX} :
    /\ Color_Temperature_Transition_Set(i, v)
    /\ Access_Within_Bounds
    /\ UNCHANGED written

Access_Fade_Time_Set == \E i \in Setter_Keys :
    /\ Color_Temperature_Default_Fade_Time_Set(i, BACNET_COLOR_FADE_TIME_MIN)
    /\ Access_Within_Bounds
    /\ UNCHANGED written

Access_Present_Value_Set == \E i \in Keys :
    /\ Color_Temperature_Present_Value_Set(i, 4000)
    /\ Access_Within_Bounds
    /\ UNCHANGED written

Access_Write_Enable == \E i \in Keys :
    /\ Color_Temperature_Write_Enable(i)
    /\ Access_Within_Bounds
    /\ UNCHANGED written

Access_Write_Disable == \E i \in Setter_Keys :
    /\ Color_Temperature_Write_Disable(i)
    /\ UNCHANGED written

Access_Name_Set == \E i \in Setter_Keys :
    /\ Color_Temperature_Name_Set(i, "bufA")
    /\ Access_Within_Bounds
    /\ UNCHANGED written

Access_Description_Set == \E i \in Setter_Keys :
    /\ Color_Temperature_Description_Set(i, "bufA2")
    /\ Access_Within_Bounds
    /\ UNCHANGED written

\* present-value writes of 65536: well formed, with an array index, and
\* with data that does not decode
Access_Write == \E i \in Setter_Keys, x \in {BACNET_ARRAY_ALL, 1}, d \in {encode_application_unsigned(65536), <<34, 15>>} :
    /\ Color_Temperature_Write_Property(
           Write_Request(i, "PROP_PRESENT_VALUE", x, BACNET_NO_PRIORITY, d))
    /\ Access_Within_Bounds
    /\ UNCHANGED written

\* reads of the properties the setters change
Access_Read == \E i \in Setter_Keys, p \in {"PROP_TRACKING_VALUE", "PROP_COLOR_COMMAND", "PROP_TRANSITION"} :
    /\ Color_Temperature_Read_Property(
           Read_Request(OBJECT_COLOR_TEMPERATURE, i, p, BACNET_ARRAY_ALL,
                        1476),
           [encoding |-> 0, value |-> <<>>])
    /\ UNCHANGED written

\* the accessors: every setter of the module, reads and writes
NextAccess ==
    \/ Access_Create
    \/ Tracking_Value_Set
    \/ Min_Pres_Value_Set
    \/ Max_Pres_Value_Set
    \/ Command_Set
    \/ In_Progress_Set
    \/ Default_Color_Temperature_Set
    \/ Default_Ramp_Rate_Set
    \/ Default_Step_Increment_Set
    \/ Transition_Set
    \/ Access_Fade_Time_Set
    \/ Access_Present_Value_Set
    \/ Access_Write_Enable
    \/ Access_Write_Disable
    \/ Access_Name_Set
    \/ Access_Description_Set
    \/ Access_Write
    \/ Access_Read

SpecAccess == Init /\ [][NextAccess]_vars

\* fade times: zero, below the range, its ends, above it
Fade_Times ==
    {0, 50, BACNET_COLOR_FADE_TIME_MIN, BACNET_COLOR_FADE_TIME_MAX,
     BACNET_COLOR_FADE_TIME_MAX + 1}

Default_Fade_Time_Set == \E i \in Keys, v \in Fade_Times :
    /\ Color_Temperature_Default_Fade_Time_Set(i, v)
    /\ UNCHANGED written

NextFade ==
    \/ Create
    \/ Delete
    \/ Default_Fade_Time_Set

SpecFade == Init /\ [][NextFade]_vars

\* the buffers the caller reuses after a call, and the texts it puts there
Caller_Buffers == {"bufA", "bufA2"}

Caller_Texts == {<<65>>, <<90>>}

Description_Set == \E i \in Keys, n \in Caller_Buffers \cup {"NULL"} :
    /\ Color_Temperature_Description_Set(i, n)
    /\ UNCHANGED written

Caller_Name_Set == \E i \in Keys, n \in Caller_Buffers \cup {"NULL"} :
    /\ Color_Temperature_Name_Set(i, n)
    /\ Within_Bounds
    /\ UNCHANGED written

\* the caller overwrites one of its buffers (or frees it and the memory is
\* used again): no function of the module is called
Caller_Modify == \E b \in Caller_Buffers, t \in Caller_Texts :
    /\ Memory' = [Memory EXCEPT ![b] = t]
    /\ last' = [No_Call EXCEPT !.op = "Caller_Modify", !.new_name = b]
    /\ UNCHANGED <<Object_List, Write_Present_Value_Callback,
                   Database_Revision, written>>

NextBuffer ==
    \/ Create
    \/ Delete
    \/ Caller_Name_Set
    \/ Description_Set
    \/ Caller_Modify

SpecBuffer == Init /\ [][NextBuffer]_vars

\* callbacks that call back into the module
Callback_Set_Any == \E cb \in {"NULL", "record", "delete", "cleanup"} :
    /\ Color_Temperature_Write_Present_Value_Callback_Set(cb)
    /\ UNCHANGED written

\* a write whose callback may delete the instance or clean the store up
Write_Back == \E wp \in Write_Inputs :
    /\ Color_Temperature_Write_Property(wp)
    /\ Within_Bounds
    /\ written' = [k \in Keys |->
                      IF Keylist_Data(Object_List', k) = NULL
                      THEN Not_Written ELSE Written_After(wp)[k]]

NextCallback ==
    \/ Create
    \/ Delete
    \/ Write_Enable
    \/ Callback_Set_Any
    \/ Present_Value_Set
    \/ Write_Back
    \/ Store_Init

SpecCallback == Init /\ [][NextCallback]_vars

\* the tag codec: the longest string, in bytes
MaxOctets == 254

\* n bytes of value b
Octets(n, b) == [k \in 1 .. n |-> b]

\* string lengths on both sides of the inline and the one-byte lengths
Codec_Lengths == {0, 1, 4, 5, MaxOctets - 1, MaxOctets}

\* values of every primitive kind, with the magnitudes at which the minimal
\* width changes
Codec_Values ==
    [tag : {BACNET_APPLICATION_TAG_BOOLEAN}, value : BOOLEAN]
    \cup [tag : {BACNET_APPLICATION_TAG_UNSIGNED_INT,
                 BACNET_APPLICATION_TAG_ENUMERATED},
          value : {0, 1, 255, 256, 4000, 65535, 65536, 16777215, 16777216,
                   2147483647}]
    \cup [tag : {BACNET_APPLICATION_TAG_SIGNED_INT},
          value : {0, 1, -1, 127, 128, -128, -129, 32767, 32768, -32768,
                   -32769, 8388607, 8388608, -8388608, -8388609,
                   2147483647, -2147483647}]
    \cup [tag : {BACNET_APPLICATION_TAG_REAL},
          value : {0, 1082130432, 2139095040}]
    \cup [tag : {BACNET_APPLICATION_TAG_DOUBLE},
          value : {Octets(8, 0), <<64, 16, 0, 0, 0, 0, 0, 0>>,
                   <<255, 240, 0, 0, 0, 0, 0, 0>>}]
    \cup [tag : {BACNET_APPLICATION_TAG_OCTET_STRING},
          value : {Octets(n, 255) : n \in Codec_Lengths}]
    \cup [tag : {BACNET_APPLICATION_TAG_CHARACTER_STRING},
          value : {characterstring_init_ansi(Octets(n, 65)) :
                      n \in Codec_Lengths}]
    \cup [tag : {BACNET_APPLICATION_TAG_BIT_STRING},
          value : {[bits_unused |-> 0, value |-> <<>>],
                   [bits_unused |-> 3, value |-> <<160>>],
                   [bits_unused |-> 7, value |-> Octets(4, 128)]}]
    \cup [tag : {BACNET_APPLICATION_TAG_DATE},
          value : {[year |-> 124, month |-> 2, day |-> 29, wday |-> 4],
                   [year |-> 255, month |-> 255, day |-> 255, wday |-> 255]}]
    \cup [tag : {BACNET_APPLICATION_TAG_TIME},
          value : {[hour |-> 0, min |-> 0, sec |-> 0, hundredths |-> 0],
                   [hour |-> 23, min |-> 59, sec |-> 59, hundredths |-> 99]}]
    \cup [tag : {BACNET_APPLICATION_TAG_OBJECT_ID},
          value : [object_type : {0, OBJECT_COLOR_TEMPERATURE,
                                  BACNET_MAX_OBJECT},
                   instance : {0, 1, BACNET_MAX_INSTANCE}]]

\* the bytes that follow the encoded value in the buffer
Codec_Tail == <<255, 255>>

\* a value is encoded at the head of a buffer
Encode == \E v \in Codec_Values :
    /\ last' = [No_Call EXCEPT !.op = "Encode", !.data_value = v,
                   !.apdu = bacapp_encode_application_data(v),
                   !.apdu_len = Len(bacapp_encode_application_data(v))]
    /\ UNCHANGED <<Object_List, Write_Present_Value_Callback,
                   Database_Revision, Memory, written>>

\* the buffer is decoded with a supplied length from nothing to the
\* encoding and the bytes after it
Decode == \E n \in 0 .. last.apdu_len + Len(Codec_Tail) :
    /\ last.op \in {"Encode", "Decode"}
    /\ last' = [last EXCEPT !.op = "Decode",
                   !.application_data = last.apdu \o Codec_Tail,
                   !.application_data_len = n,
                   !.decoded = bacapp_decode_application_data(
                                   last.apdu \o Codec_Tail, n)]
    /\ UNCHANGED <<Object_List, Write_Present_Value_Callback,
                   Database_Revision, Memory, written>>

\* octet strings whose tag carries the length in each extended form
Escalated_Inputs ==
    {[value |-> Octets(n, 255), form |-> f] :
        n \in Codec_Lengths, f \in {3, 5}} \cup
    {[value |-> Octets(n, 255), form |-> 1] :
        n \in {m \in Codec_Lengths : m <= 253}}

\* an octet string is decoded from a tag with the length in a chosen form
Decode_Escalated == \E e \in Escalated_Inputs :
    \E apdu \in {encode_tag_escalated(BACNET_APPLICATION_TAG_OCTET_STRING,
                                       Len(e.value), e.form) \o e.value} :
        /\ last' = [No_Call EXCEPT !.op = "Decode_Escalated",
                       !.data_value =
                           [tag |-> BACNET_APPLICATION_TAG_OCTET_STRING,
                            value |-> e.value],
                       !.form = e.form,
                       !.apdu = apdu, !.apdu_len = Len(apdu),
                       !.application_data = apdu,
                       !.application_data_len = Len(apdu),
                       !.decoded =
                           bacapp_decode_application_data(apdu, Len(apdu))]
        /\ UNCHANGED <<Object_List, Write_Present_Value_Callback,
                       Database_Revision, Memory, written>>

NextCodec ==
    \/ Encode
    \/ Decode
    \/ Decode_Escalated

SpecCodec == Init /\ [][NextCodec]_vars

(***************************************************************************)
(* Properties                                                              *)
(***************************************************************************)
\* a write of the present value, whole property
Present_Value_Request(instance, priority, value) ==
    Write_Request(instance, "PROP_PRESENT_VALUE", BACNET_ARRAY_ALL, priority,
                  encode_application_unsigned(value))

\* what a read of the present value of the instance decodes to
Read_Back(instance) ==
    LET r == Read_Property(
                 Read_Request(OBJECT_COLOR_TEMPERATURE, instance,
                     "PROP_PRESENT_VALUE", BACNET_ARRAY_ALL, 1476),
                 [encoding |-> 0, value |-> <<>>])
        d == bacapp_decode_application_data(r.apdu, Len(r.apdu))
    IN  [apdu_len |-> r.apdu_len, len |-> d.len, tag |-> d.tag,
         value |-> d.value]

\* C1: for every live instance whose Write_Enabled flag is false, a write of
\* PRESENT_VALUE with a decodable unsigned value and array index ALL, at any
\* priority, returns false with (PROPERTY, WRITE_ACCESS_DENIED), leaves the
\* store (so Present_Value) unchanged and invokes no callback.
C1_WriteDisabledDenied ==
    \A i \in Instances :
        ~Color_Temperature_Write_Enabled(i) =>
            \A v \in Values, q \in Priorities :
                LET r == Write_Property(Present_Value_Request(i, q, v))
                IN  /\ r.status = FALSE
                    /\ r.error_class = "ERROR_CLASS_PROPERTY"
                    /\ r.error_code = "ERROR_CODE_WRITE_ACCESS_DENIED"
                    /\ r.list = Object_List
                    /\ r.callbacks = <<>>

\* a denied write to an instance that holds a written value, once writes
\* were disabled again, with a callback registered
C1_Witness ==
    /\ last.op = "Write_Property"
    /\ last.object_property = "PROP_PRESENT_VALUE"
    /\ last.array_index = BACNET_ARRAY_ALL
    /\ last.status = FALSE
    /\ last.error_code = "ERROR_CODE_WRITE_ACCESS_DENIED"
    /\ last.callbacks = <<>>
    /\ Write_Present_Value_Callback # "NULL"
    /\ Color_Temperature_Present_Value(last.object_instance) = 65536
    /\ ~Color_Temperature_Write_Enabled(last.object_instance)

\* C2: for every live instance with writes enabled and every value v, a
\* write of PRESENT_VALUE with v at priority "none" succeeds; and as long as
\* v is the value last written to a live instance (no later successful
\* present-value write, no delete), a read of PRESENT_VALUE with array index
\* ALL returns an encoding that is an unsigned integer, decodes to v and is
\* consumed whole.
C2_WriteThenReadBack ==
    /\ \A i \in Instances, v \in Values :
            Color_Temperature_Write_Enabled(i) =>
                Write_Property(
                    Present_Value_Request(i, BACNET_NO_PRIORITY, v)).status
    /\ \A i \in Keys :
        \A v \in written[i] :
                /\ Color_Temperature_Valid_Instance(i)
                /\ Read_Back(i).apdu_len > 0
                /\ Read_Back(i).len = Read_Back(i).apdu_len
                /\ Read_Back(i).tag = BACNET_APPLICATION_TAG_UNSIGNED_INT
                /\ Read_Back(i).value = v

\* the value 65536 was written to instance 1 at priority none, and after
\* other calls a read of its present value returns the four bytes of 65536
C2_Witness ==
    /\ last.op = "Read_Property"
    /\ last.object_property = "PROP_PRESENT_VALUE"
    /\ last.object_instance = 1
    /\ last.apdu = <<35, 1, 0, 0>>
    /\ last.apdu_len = 4
    /\ written[1] = {65536}
    /\ Color_Temperature_Valid_Instance(2)

\* a read that answers "not an array"
Not_An_Array(r) ==
    /\ r.apdu_len = BACNET_STATUS_ERROR
    /\ r.error_class = "ERROR_CLASS_PROPERTY"
    /\ r.error_code = "ERROR_CODE_PROPERTY_IS_NOT_AN_ARRAY"

\* C3 as stated: every read of a listed property with a concrete array
\* index returns BACNET_STATUS_ERROR with (PROPERTY, PROPERTY_IS_NOT_AN_ARRAY).
C3_Original ==
    (/\ last.op = "Read_Property"
     /\ last.object_property \in Listed_Properties
     /\ last.array_index # BACNET_ARRAY_ALL)
    => Not_An_Array(last)

\* C3 amended: a read of a listed property with a concrete array index into
\* a non-empty buffer returns BACNET_STATUS_ERROR with (PROPERTY,
\* PROPERTY_IS_NOT_AN_ARRAY), for every object type and every instance, live
\* or not, except OBJECT_NAME of an instance that is not in the store, where
\* the handler encodes a character string it never wrote and the source
\* defines no outcome; into an empty buffer, or with no buffer, every such
\* read returns 0 and sets no error.
C3_ReadNotAnArray ==
    \A t \in Request_Types, i \in Request_Instances,
       p \in Listed_Properties, x \in Array_Indexes \ {BACNET_ARRAY_ALL} :
        LET rq == Read_Request(t, i, p, x, 1476)
            g == Uninitialized_String(0)
        IN  /\ ~Reads_Uninitialized(rq) =>
                    Not_An_Array(Read_Property(rq, g))
            /\ Read_Property(Read_Request(t, i, p, x, 0), g) =
                   [apdu_len |-> 0, apdu |-> <<>>,
                    error_class |-> "UNSET", error_code |-> "UNSET"]
            /\ Read_Property(Read_Request_No_Buffer(rq), g) =
                   [apdu_len |-> 0, apdu |-> <<>>,
                    error_class |-> "UNSET", error_code |-> "UNSET"]

\* the present value of a live instance was read with array index 1
C3_Witness ==
    /\ last.op = "Read_Property"
    /\ last.object_property = "PROP_PRESENT_VALUE"
    /\ last.array_index = 1
    /\ last.buffer # "NULL"
    /\ last.application_data_len > 0
    /\ Color_Temperature_Present_Value(last.object_instance) = 4000
    /\ Not_An_Array(last)

\* C4: a write with a value that decodes, of a property other than
\* PRIORITY_ARRAY and EVENT_TIME_STAMPS, with a concrete array index,
\* returns false with (PROPERTY, PROPERTY_IS_NOT_AN_ARRAY), leaves the store
\* unchanged and invokes no callback, whatever the instance and its
\* Write_Enabled flag.
C4_WriteNotAnArray ==
    \A i \in Instances \cup {0},
       p \in Properties \ {"PROP_PRIORITY_ARRAY", "PROP_EVENT_TIME_STAMPS"},
       x \in Array_Indexes \ {BACNET_ARRAY_ALL},
       d \in {encode_application_unsigned(4000),
              encode_application_real(1082130432),
              encode_application_enumerated(1)} :
        LET r == Write_Property(
                     Write_Request(i, p, x, BACNET_NO_PRIORITY, d))
        IN  /\ r.status = FALSE
            /\ r.error_class = "ERROR_CLASS_PROPERTY"
            /\ r.error_code = "ERROR_CODE_PROPERTY_IS_NOT_AN_ARRAY"
            /\ r.list = Object_List
            /\ r.callbacks = <<>>

\* the present value of a write-enabled instance was written with array
\* index 1 and an unsigned value
C4_Witness ==
    /\ last.op = "Write_Property"
    /\ last.object_property = "PROP_PRESENT_VALUE"
    /\ last.array_index = 1
    /\ last.application_data = encode_application_unsigned(4000)
    /\ last.status = FALSE
    /\ last.error_code = "ERROR_CODE_PROPERTY_IS_NOT_AN_ARRAY"
    /\ Color_Temperature_Write_Enabled(last.object_instance)
    /\ Color_Temperature_Present_Value(last.object_instance) = 65536

\* the objects that hold the text of the buffer before a Name_Set call
Holders(new_name) ==
    Device_Valid_Object_Name(characterstring_init_ansi(Memory[new_name]))

\* the step is a Name_Set call on a live instance with a name
Name_Set_Step(i, n) ==
    /\ last'.op = "Name_Set"
    /\ last'.object_instance = i
    /\ last'.new_name = n
    /\ Color_Temperature_Valid_Instance(i)

\* C5 as stated: Name_Set(i, n) on a live instance i, where n is held by a
\* different live object (another type or another instance), returns false,
\* leaves the stored name of i unchanged and does not increment the
\* database revision.
C5_Original ==
    [][\A i \in Keys, n \in DOMAIN Buffers :
        (/\ Name_Set_Step(i, n)
         /\ Holders(n) \ {[type |-> OBJECT_COLOR_TEMPERATURE,
                           instance |-> i]} # {})
        => /\ last'.status = FALSE
           /\ Keylist_Data(Object_List', i).Object_Name =
                  Keylist_Data(Object_List, i).Object_Name
           /\ Database_Revision' = Database_Revision
      ]_vars

\* C6 as stated: Name_Set(i, n) on a live instance i, where the device's
\* name lookup resolves n to (Color Temperature, i), returns true and
\* changes neither the store nor the database revision.
C6_Original ==
    [][\A i \in Keys, n \in DOMAIN Buffers :
        (/\ Name_Set_Step(i, n)
         /\ Holders(n) = {[type |-> OBJECT_COLOR_TEMPERATURE,
                           instance |-> i]})
        => /\ last'.status = TRUE
           /\ Object_List' = Object_List
           /\ Database_Revision' = Database_Revision
      ]_vars

\* C7: Name_Set(i, n) on a live instance i, where no object of the device
\* holds n, returns true, makes Color_Temperature_Object_Name(i) report n,
\* leaves the other records alone and increments the database revision by
\* exactly one.
C7_FreshNameSet ==
    [][\A i \in Keys, n \in DOMAIN Buffers :
        (/\ Name_Set_Step(i, n)
         /\ Holders(n) = {})
        => /\ last'.status = TRUE
           /\ Color_Temperature_Object_Name(i)' =
                  [status |-> TRUE, text |-> Memory[n]]
           /\ Object_List' =
                  Set_Field(Object_List, i, "Object_Name", n)
           /\ Database_Revision' = Database_Revision + 1
      ]_vars

\* instance 2 was named "A" while instance 1 is live under its default name
C7_Witness ==
    /\ last.op = "Name_Set"
    /\ last.object_instance = 2
    /\ last.status = TRUE
    /\ Color_Temperature_Valid_Instance(1)
    /\ Color_Temperature_Object_Name(1).text = Default_Name(1)
    /\ Color_Temperature_Object_Name(2).text = <<65>>
    /\ Database_Revision = 3

\* C8 as stated: no two live objects report the same name through
\* Color_Temperature_Object_Name, the name set or the default name.
C8_Original ==
    \A i \in Instances, j \in Instances :
        i # j =>
            Color_Temperature_Object_Name(i).text
                # Color_Temperature_Object_Name(j).text

\* C9: for every object type and instance of a request, a read of
\* OBJECT_IDENTIFIER with array index ALL into a non-empty buffer returns a
\* length that is not zero; the bytes start with the application tag
\* object-identifier of length 4, and the four bytes after the tag decode to
\* the object type and the instance of the request.
C9_ObjectIdentifierRead ==
    \A t \in Request_Types, i \in Request_Instances,
       g \in {Uninitialized_String(0), Uninitialized_String(43)} :
        LET r == Read_Property(
                     Read_Request(t, i, "PROP_OBJECT_IDENTIFIER",
                                  BACNET_ARRAY_ALL, 1476), g)
            tag == decode_tag_number_and_value(r.apdu)
            id == decode_object_id(
                      SubSeq(r.apdu, tag.len + 1, Len(r.apdu)))
        IN  /\ r.apdu_len # 0
            /\ r.apdu_len = Len(r.apdu)
            /\ tag.len = 1
            /\ tag.tag_number = BACNET_APPLICATION_TAG_OBJECT_ID
            /\ ~tag.context_specific
            /\ tag.value = 4
            /\ id.len = 4
            /\ id.object_type = t
            /\ id.instance = i

\* the object identifier of a live Color Temperature instance was read
C9_Witness ==
    /\ last.op = "Read_Property"
    /\ last.object_property = "PROP_OBJECT_IDENTIFIER"
    /\ last.array_index = BACNET_ARRAY_ALL
    /\ last.object_type = OBJECT_COLOR_TEMPERATURE
    /\ last.object_instance = 2
    /\ Color_Temperature_Valid_Instance(2)
    /\ last.apdu_len = 5
    /\ last.apdu = <<196, 16, 0, 0, 2>>

\* C10 as stated: a read for an instance that is not in the store returns
\* an error with (OBJECT, UNKNOWN_OBJECT), whatever the property.
C10_Original ==
    (/\ last.op = "Read_Property"
     /\ last.rpdata # "NULL"
     /\ last.buffer # "NULL"
     /\ last.application_data_len > 0
     /\ ~Color_Temperature_Valid_Instance(last.object_instance))
    => /\ last.apdu_len = BACNET_STATUS_ERROR
       /\ last.error_class = "ERROR_CLASS_OBJECT"
       /\ last.error_code = "ERROR_CODE_UNKNOWN_OBJECT"

\* C11: a write of PRESENT_VALUE with a decodable unsigned value and array
\* index ALL to an instance that is not in the store returns false with
\* (OBJECT, UNKNOWN_OBJECT), leaves the store as it is (no record is
\* created) and invokes no callback.
C11_WriteUnknownObject ==
    \A i \in Request_Instances \ Instances, v \in Values,
       q \in {BACNET_NO_PRIORITY, 1, BACNET_MAX_PRIORITY} :
        LET r == Write_Property(Present_Value_Request(i, q, v))
        IN  /\ r.status = FALSE
            /\ r.error_class = "ERROR_CLASS_OBJECT"
            /\ r.error_code = "ERROR_CODE_UNKNOWN_OBJECT"
            /\ r.list = Object_List
            /\ r.callbacks = <<>>

\* instance 2 is missing and was written, while instance 1 is live and
\* write-enabled and a callback is registered
C11_Witness ==
    /\ last.op = "Write_Property"
    /\ last.object_property = "PROP_PRESENT_VALUE"
    /\ last.array_index = BACNET_ARRAY_ALL
    /\ last.object_instance = 2
    /\ last.status = FALSE
    /\ last.error_class = "ERROR_CLASS_OBJECT"
    /\ last.error_code = "ERROR_CODE_UNKNOWN_OBJECT"
    /\ last.callbacks = <<>>
    /\ Instances = {1}
    /\ Color_Temperature_Write_Enabled(1)
    /\ Write_Present_Value_Callback # "NULL"

\* a read that answers "unknown property"
Unknown_Property(r) ==
    /\ r.apdu_len = BACNET_STATUS_ERROR
    /\ r.error_class = "ERROR_CLASS_PROPERTY"
    /\ r.error_code = "ERROR_CODE_UNKNOWN_PROPERTY"

\* C12 as stated: with array index ALL, a read returns BACNET_STATUS_ERROR
\* with (PROPERTY, UNKNOWN_PROPERTY) exactly when the property is in none
\* of the three lists.
C12_Original ==
    (/\ last.op = "Read_Property"
     /\ last.array_index = BACNET_ARRAY_ALL)
    => (Unknown_Property(last)
            <=> last.object_property \notin Listed_Properties)

\* C12 amended: with array index ALL and a non-empty buffer, a read returns
\* BACNET_STATUS_ERROR exactly when the property is in none of the three
\* lists, and then with (PROPERTY, UNKNOWN_PROPERTY); a listed property
\* sets no error, and for a live instance it returns encoded bytes. The
\* read of OBJECT_NAME of an instance that is not in the store is left
\* out: the handler encodes a character string it never wrote and the
\* source defines no outcome. Into an empty buffer, or with no buffer, the
\* read returns 0, whatever the property.
C12_ReadUnknownProperty ==
    \A t \in {0, OBJECT_COLOR_TEMPERATURE}, i \in Request_Instances,
       p \in Properties :
        LET rq == Read_Request(t, i, p, BACNET_ARRAY_ALL, 1476)
            g == Uninitialized_String(0)
            r == Read_Property(rq, g)
            e == Read_Property(Read_Request(t, i, p, BACNET_ARRAY_ALL, 0), g)
            n == Read_Property(Read_Request_No_Buffer(rq), g)
        IN  /\ ~Reads_Uninitialized(rq) =>
                /\ (r.apdu_len = BACNET_STATUS_ERROR)
                        <=> (p \notin Listed_Properties)
                /\ p \notin Listed_Properties => Unknown_Property(r)
                /\ p \in Listed_Properties =>
                        /\ r.apdu_len >= 0
                        /\ r.apdu_len = Len(r.apdu)
                        /\ r.error_class = "UNSET"
                        /\ r.error_code = "UNSET"
                /\ (p \in Listed_Properties
                        /\ Color_Temperature_Valid_Instance(i))
                        => r.apdu_len > 0
            /\ e.apdu_len = 0
            /\ e.error_code = "UNSET"
            /\ n.apdu_len = 0
            /\ n.error_code = "UNSET"

\* a property the type does not have was read from a live instance
C12_Witness ==
    /\ last.op = "Read_Property"
    /\ last.object_property = "PROP_UNITS"
    /\ last.array_index = BACNET_ARRAY_ALL
    /\ last.buffer # "NULL"
    /\ last.application_data_len > 0
    /\ Color_Temperature_Valid_Instance(last.object_instance)
    /\ Unknown_Property(last)

\* C13 as stated: a write reports UNKNOWN_PROPERTY only for property ids
\* that are in none of the three lists.
C13_Original ==
    (/\ last.op = "Write_Property"
     /\ last.error_code = "ERROR_CODE_UNKNOWN_PROPERTY")
    => last.object_property \notin Listed_Properties

\* C14 as stated: a read or a write that names a property unknown to the
\* type and carries a concrete array index is answered with
\* UNKNOWN_PROPERTY, not with PROPERTY_IS_NOT_AN_ARRAY.
C14_Original ==
    (/\ last.op \in {"Read_Property", "Write_Property"}
     /\ last.object_property \notin Listed_Properties
     /\ last.array_index # BACNET_ARRAY_ALL)
    => /\ last.error_code = "ERROR_CODE_UNKNOWN_PROPERTY"
       /\ last.error_code # "ERROR_CODE_PROPERTY_IS_NOT_AN_ARRAY"

\* C15: when the value of a write request does not decode (the decoder
\* returns a negative length), the write returns false with (PROPERTY,
\* VALUE_OUT_OF_RANGE), for every property, array index and instance, live
\* or not, and leaves the store unchanged with no callback invoked.
C15_DecodeFailure ==
    \A i \in Keys \cup {0}, p \in Properties, x \in {BACNET_ARRAY_ALL, 1},
       d \in Undecodable_Data \cup {encode_application_unsigned(4000)} :
        bacapp_decode_application_data(d, Len(d)).len < 0 =>
            LET r == Write_Property(
                         Write_Request(i, p, x, BACNET_NO_PRIORITY, d))
            IN  /\ r.status = FALSE
                /\ r.error_class = "ERROR_CLASS_PROPERTY"
                /\ r.error_code = "ERROR_CODE_VALUE_OUT_OF_RANGE"
                /\ r.list = Object_List
                /\ r.callbacks = <<>>

\* an unsigned value cut short was written to the present value of a
\* write-enabled instance
C15_Witness ==
    /\ last.op = "Write_Property"
    /\ last.application_data = <<34, 15>>
    /\ last.object_property = "PROP_PRESENT_VALUE"
    /\ last.array_index = BACNET_ARRAY_ALL
    /\ last.status = FALSE
    /\ last.error_code = "ERROR_CODE_VALUE_OUT_OF_RANGE"
    /\ Color_Temperature_Write_Enabled(last.object_instance)

\* C16: a write of OBJECT_IDENTIFIER, OBJECT_TYPE, OBJECT_NAME or
\* DESCRIPTION with a value that decodes and array index ALL returns false
\* with (PROPERTY, WRITE_ACCESS_DENIED), leaves the store unchanged and
\* invokes no callback, whatever the Write_Enabled flag of the instance.
C16_IdentityReadOnly ==
    \A i \in Keys \cup {0},
       p \in {"PROP_OBJECT_IDENTIFIER", "PROP_OBJECT_TYPE",
              "PROP_OBJECT_NAME", "PROP_DESCRIPTION"},
       d \in Decodable_Data, q \in {BACNET_NO_PRIORITY, BACNET_MAX_PRIORITY} :
        LET r == Write_Property(Write_Request(i, p, BACNET_ARRAY_ALL, q, d))
        IN  /\ r.status = FALSE
            /\ r.error_class = "ERROR_CLASS_PROPERTY"
            /\ r.error_code = "ERROR_CODE_WRITE_ACCESS_DENIED"
            /\ r.list = Object_List
            /\ r.callbacks = <<>>

\* the object name of a write-enabled instance was written
C16_Witness ==
    /\ last.op = "Write_Property"
    /\ last.object_property = "PROP_OBJECT_NAME"
    /\ last.array_index = BACNET_ARRAY_ALL
    /\ last.status = FALSE
    /\ last.error_class = "ERROR_CLASS_PROPERTY"
    /\ last.error_code = "ERROR_CODE_WRITE_ACCESS_DENIED"
    /\ Color_Temperature_Write_Enabled(last.object_instance)

\* C17: a write of PRESENT_VALUE (array index ALL) whose value decodes to
\* a tag other than unsigned integer returns false, leaves the store (so
\* Present_Value) unchanged and invokes no callback, for every live
\* instance, write-enabled or not.
C17_WrongTypeRejected ==
    \A i \in Instances, q \in Priorities,
       d \in {encode_application_real(1082130432),
              encode_application_enumerated(1)} :
        LET r == Write_Property(
                     Write_Request(i, "PROP_PRESENT_VALUE",
                                   BACNET_ARRAY_ALL, q, d))
        IN  /\ r.status = FALSE
            /\ r.list = Object_List
            /\ r.callbacks = <<>>

\* a real was written to the present value of a write-enabled instance
\* with a callback registered
C17_Witness ==
    /\ last.op = "Write_Property"
    /\ last.object_property = "PROP_PRESENT_VALUE"
    /\ last.array_index = BACNET_ARRAY_ALL
    /\ last.application_data = encode_application_real(1082130432)
    /\ last.status = FALSE
    /\ last.callbacks = <<>>
    /\ Color_Temperature_Write_Enabled(last.object_instance)
    /\ Write_Present_Value_Callback # "NULL"

\* C18: every call of Color_Temperature_Write_Property that returns false
\* leaves the store as it was: every field of every record, the instance
\* count and the database revision.
C18_FailedWriteNoChange ==
    [][(last'.op = "Write_Property" /\ last'.status = FALSE)
        => /\ Object_List' = Object_List
           /\ Color_Temperature_Count' = Color_Temperature_Count
           /\ Database_Revision' = Database_Revision
      ]_vars

\* a write was denied on a write-disabled instance that holds 4000, while
\* the other instance is live too
C18_Witness ==
    /\ last.op = "Write_Property"
    /\ last.status = FALSE
    /\ last.object_property = "PROP_PRESENT_VALUE"
    /\ last.application_data = encode_application_unsigned(65536)
    /\ last.error_code = "ERROR_CODE_WRITE_ACCESS_DENIED"
    /\ Color_Temperature_Present_Value(last.object_instance) = 4000
    /\ Instances = Keys

\* C19: a read, a write or a setter call addressed to instance i leaves the
\* record of every other live instance and the set of live instances
\* unchanged, whether the call succeeds or fails.
C19_OtherInstancesUntouched ==
    [][last'.op \in {"Read_Property", "Write_Property", "Present_Value_Set",
                     "Write_Enable", "Write_Disable", "Name_Set",
                     "Description_Set", "Tracking_Value_Set",
                     "Min_Pres_Value_Set", "Max_Pres_Value_Set",
                     "Command_Set", "In_Progress_Set",
                     "Default_Color_Temperature_Set",
                     "Default_Fade_Time_Set", "Default_Ramp_Rate_Set",
                     "Default_Step_Increment_Set", "Transition_Set"}
        => /\ \A j \in Instances :
                j # last'.object_instance =>
                    Keylist_Data(Object_List', j)
                        = Keylist_Data(Object_List, j)
           /\ Instances' = Instances
      ]_vars

\* 65536 was written to the present value of instance 1 while instance 2
\* is write-enabled and holds a present value of its own
C19_Witness ==
    /\ last.op = "Write_Property"
    /\ last.object_instance = 1
    /\ last.status = TRUE
    /\ Color_Temperature_Present_Value(1) = 65536
    /\ Color_Temperature_Valid_Instance(2)
    /\ Color_Temperature_Write_Enabled(2)
    /\ Color_Temperature_Present_Value(2) = 4000

\* a call that has set the error class and the error code of its request
Error_Pair_Set(r) ==
    /\ r.error_class \in {"ERROR_CLASS_PROPERTY", "ERROR_CLASS_OBJECT"}
    /\ r.error_code # "UNSET"

\* C20: whenever a read returns BACNET_STATUS_ERROR or a write returns
\* false, the call has set both the error class and the error code of the
\* request (the requests enter with neither set): for the call made last,
\* and for every write and every read of every property in the state
\* reached. The read of OBJECT_NAME of an instance that is not in the store
\* returns what the encoder makes of a character string that was never
\* written, which the source does not define; it is not among the reads.
C20_ErrorPairSet ==
    /\ (last.op = "Read_Property" /\ last.apdu_len = BACNET_STATUS_ERROR)
            => Error_Pair_Set(last)
    /\ (last.op = "Write_Property" /\ last.status = FALSE)
            => Error_Pair_Set(last)
    /\ \A i \in Keys \cup {0}, p \in Properties,
          x \in {BACNET_ARRAY_ALL, 1},
          d \in {encode_application_unsigned(4000),
                 encode_application_real(1082130432), <<34, 15>>} :
            LET w == Write_Property(
                         Write_Request(i, p, x, BACNET_NO_PRIORITY, d))
            IN  w.status = FALSE => Error_Pair_Set(w)
    /\ \A i \in Keys \cup {0}, p \in Properties,
          x \in {BACNET_ARRAY_ALL, 1} :
            LET rq == Read_Request(OBJECT_COLOR_TEMPERATURE, i, p, x, 1476)
                r == Read_Property(rq, Uninitialized_String(0))
            IN  (~Reads_Uninitialized(rq)
                     /\ r.apdu_len = BACNET_STATUS_ERROR)
                    => Error_Pair_Set(r)

\* a read of the present value of a write-enabled instance with array
\* index 1 failed with the pair (PROPERTY, PROPERTY_IS_NOT_AN_ARRAY), and a
\* write of UNITS to that instance fails with the pair (PROPERTY,
\* UNKNOWN_PROPERTY)
C20_Witness ==
    /\ last.op = "Read_Property"
    /\ last.apdu_len = BACNET_STATUS_ERROR
    /\ last.object_property = "PROP_PRESENT_VALUE"
    /\ last.array_index = 1
    /\ last.error_class = "ERROR_CLASS_PROPERTY"
    /\ last.error_code = "ERROR_CODE_PROPERTY_IS_NOT_AN_ARRAY"
    /\ Color_Temperature_Write_Enabled(last.object_instance)
    /\ \E w \in {Write_Property(
                     Write_Request(last.object_instance, "PROP_UNITS",
                                   BACNET_ARRAY_ALL, BACNET_NO_PRIORITY,
                                   encode_application_unsigned(4000)))} :
           /\ w.status = FALSE
           /\ w.error_class = "ERROR_CLASS_PROPERTY"
           /\ w.error_code = "ERROR_CODE_UNKNOWN_PROPERTY"

\* C21: across the store operations the database revision never decreases;
\* a Create that adds an instance and a Delete of a live instance add exactly
\* one to it; a Create of an existing instance, a failed Create (sentinel
\* returned) and a Delete of an absent instance leave it unchanged
C21_RevisionCounts ==
    [][/\ Database_Revision' >= Database_Revision
       /\ last'.op = "Create" =>
            Database_Revision' =
                IF /\ last'.instance # BACNET_MAX_INSTANCE
                   /\ ~Color_Temperature_Valid_Instance(last'.instance)
                THEN Database_Revision + 1
                ELSE Database_Revision
       /\ last'.op = "Delete" =>
            Database_Revision' =
                IF Color_Temperature_Valid_Instance(last'.object_instance)
                THEN Database_Revision + 1
                ELSE Database_Revision
      ]_vars

\* a live instance was deleted after three creations: the revision is 4
C21_Witness ==
    /\ last.op = "Delete"
    /\ last.status
    /\ last.object_instance = 2
    /\ Instances = {1, 3}
    /\ Database_Revision = 4

\* C22: a successful write of PRESENT_VALUE that changes the present value
\* adds one to the database revision
C22_Original ==
    [][\A i \in Keys :
        (/\ last'.op = "Write_Property"
         /\ last'.status
         /\ last'.object_property = "PROP_PRESENT_VALUE"
         /\ last'.object_instance = i
         /\ Color_Temperature_Present_Value(i)' #
               Color_Temperature_Present_Value(i))
        => Database_Revision' = Database_Revision + 1
      ]_vars

\* no two nodes of the store have the same instance
No_Two_Records ==
    \A j, k \in 1 .. Color_Temperature_Count :
        j # k => Object_List.nodes[j].key # Object_List.nodes[k].key

\* C23: the store never holds two records for one instance, and a Create of
\* an instance already in the store returns that instance and changes
\* nothing: every field of every record, the count and the revision stay
C23_CreateExisting ==
    /\ []No_Two_Records
    /\ [][\A i \in Store_Keys :
            (/\ last'.op = "Create"
             /\ last'.object_instance = i
             /\ Color_Temperature_Valid_Instance(i))
            => /\ last'.instance = i
               /\ Object_List' = Object_List
               /\ Color_Temperature_Count' = Color_Temperature_Count
               /\ Database_Revision' = Database_Revision
         ]_vars

\* instance 1 was created again after its present value was set and its
\* writes were enabled
C23_Witness ==
    /\ last.op = "Create"
    /\ last.object_instance = 1
    /\ last.instance = 1
    /\ Color_Temperature_Present_Value(1) = 4000
    /\ Color_Temperature_Write_Enabled(1)
    /\ Color_Temperature_Count = 2

\* C24: in every state that Create and Delete calls reach, the instances
\* at consecutive indexes ascend strictly, and the index of the instance at
\* index k is k, for every k below the count
C24_IndexOrder ==
    \A k \in 0 .. Color_Temperature_Count - 1 :
        /\ k + 1 < Color_Temperature_Count
            => Color_Temperature_Index_To_Instance(k) <
                   Color_Temperature_Index_To_Instance(k + 1)
        /\ Color_Temperature_Instance_To_Index(
               Color_Temperature_Index_To_Instance(k)) = k

\* instance 1 was created last and stands first of three
C24_Witness ==
    /\ last.op = "Create"
    /\ last.instance = 1
    /\ Color_Temperature_Count = 3
    /\ Color_Temperature_Index_To_Instance(0) = 1
    /\ Color_Temperature_Index_To_Instance(2) = 3
    /\ Database_Revision = 3

\* the lowest instance from 1 up that the store does not hold
Lowest_Free ==
    CHOOSE n \in 1 .. Color_Temperature_Count + 1 :
        /\ n \notin Instances
        /\ \A m \in 1 .. n - 1 : m \in Instances

\* C25: a Create with the wildcard instance that succeeds returns the lowest
\* instance from 1 up that was not in the store, gaps left by deletions
\* included; that instance was not live before the call and is live after
C25_WildcardLowestFree ==
    [][(/\ last'.op = "Create"
        /\ last'.object_instance = BACNET_MAX_INSTANCE
        /\ last'.instance # BACNET_MAX_INSTANCE)
        => /\ last'.instance = Lowest_Free
           /\ ~Color_Temperature_Valid_Instance(last'.instance)
           /\ Instances' = Instances \cup {last'.instance}
      ]_vars

\* after 1, 2 and 3 were created and 2 deleted, the wildcard returned 2
C25_Witness ==
    /\ last.op = "Create"
    /\ last.object_instance = BACNET_MAX_INSTANCE
    /\ last.instance = 2
    /\ Instances = {1, 2, 3}
    /\ Database_Revision = 5

\* C26: a Create fails only by returning the sentinel BACNET_MAX_INSTANCE:
\* a number above the sentinel gets the sentinel; every Create either
\* returns the sentinel and leaves the records, the count and the revision
\* unchanged, or returns an instance that is live after the call
C26_CreateFailure ==
    [][last'.op = "Create" =>
        /\ last'.object_instance > BACNET_MAX_INSTANCE
            => last'.instance = BACNET_MAX_INSTANCE
        /\ IF last'.instance = BACNET_MAX_INSTANCE
           THEN /\ Object_List' = Object_List
                /\ Color_Temperature_Count' = Color_Temperature_Count
                /\ Database_Revision' = Database_Revision
           ELSE last'.instance \in Instances'
      ]_vars

\* the creation of instance 3 failed in an allocation: 1 and 2 remain
C26_Witness ==
    /\ last.op = "Create"
    /\ last.object_instance = 3
    /\ last.instance = BACNET_MAX_INSTANCE
    /\ Instances = {1, 2}
    /\ Color_Temperature_Present_Value(1) = 4000
    /\ Database_Revision = 2

\* C27: a Delete of an instance that is not in the store returns false and
\* leaves every record, the count and the revision unchanged; a Delete of a
\* live instance returns true and removes that instance and no other
C27_DeleteOutcome ==
    [][\A i \in Store_Keys :
        (last'.op = "Delete" /\ last'.object_instance = i) =>
            IF Color_Temperature_Valid_Instance(i)
            THEN /\ last'.status = TRUE
                 /\ ~Color_Temperature_Valid_Instance(i)'
                 /\ Instances' = Instances \ {i}
                 /\ \A j \in Instances \ {i} :
                        Keylist_Data(Object_List', j) =
                            Keylist_Data(Object_List, j)
            ELSE /\ last'.status = FALSE
                 /\ Object_List' = Object_List
                 /\ Color_Temperature_Count' = Color_Temperature_Count
                 /\ Database_Revision' = Database_Revision
      ]_vars

\* instance 3 was not in the store when it was deleted: 1 and 2 remain
C27_Witness ==
    /\ last.op = "Delete"
    /\ last.object_instance = 3
    /\ last.status = FALSE
    /\ Instances = {1, 2}
    /\ Color_Temperature_Present_Value(2) = 4000
    /\ Database_Revision = 2

\* C28: a record leaves the store only in a Delete of its instance or in a
\* Cleanup, an instance enters the store only in a Create, and the count is
\* the number of live instances
C28_Original ==
    /\ [](Color_Temperature_Count = Cardinality(Instances))
    /\ [][\A i \in Store_Keys :
            /\ (Color_Temperature_Valid_Instance(i) /\
                ~Color_Temperature_Valid_Instance(i)')
                => \/ last'.op = "Delete" /\ last'.object_instance = i
                   \/ last'.op = "Cleanup"
            /\ (~Color_Temperature_Valid_Instance(i) /\
                Color_Temperature_Valid_Instance(i)')
                => last'.op = "Create" /\ last'.instance = i
         ]_vars

\* the decoded value is the value that was encoded
Same_Value(decoded, data_value) ==
    /\ decoded.tag = data_value.tag
    /\ IF data_value.tag = BACNET_APPLICATION_TAG_OBJECT_ID
       THEN /\ decoded.value.object_type = data_value.value.object_type
            /\ decoded.value.instance = data_value.value.instance
       ELSE decoded.value = data_value.value

\* C29: for every primitive kind, decoding the encoding of a value yields
\* that value and consumes exactly the bytes the encoder wrote, at the
\* magnitudes where the minimal width changes too
C29_RoundTrip ==
    (last.op = "Decode" /\ last.application_data_len >= last.apdu_len)
        => /\ last.decoded.len = last.apdu_len
           /\ Same_Value(last.decoded, last.data_value)

\* unsigned 65536, the first value of three bytes, was decoded from its
\* four bytes of encoding
C29_Witness ==
    /\ last.op = "Decode"
    /\ last.data_value.tag = BACNET_APPLICATION_TAG_UNSIGNED_INT
    /\ last.data_value.value = 65536
    /\ last.apdu = <<35, 1, 0, 0>>
    /\ last.application_data_len = 4
    /\ last.decoded.len = 4
    /\ last.decoded.value = 65536

\* C30: decoding a proper prefix of an encoded value fails with the failure
\* sentinel, and the outcome does not depend on the bytes at or beyond the
\* supplied length
C30_TruncationFails ==
    (last.op = "Decode" /\ last.application_data_len < last.apdu_len)
        => /\ last.decoded.len = BACNET_STATUS_ERROR
           /\ last.decoded =
                  bacapp_decode_application_data(
                      SubSeq(last.application_data, 1,
                             last.application_data_len) \o Octets(8, 0),
                      last.application_data_len)

\* the first three of the four bytes of unsigned 65536 did not decode
C30_Witness ==
    /\ last.op = "Decode"
    /\ last.data_value.tag = BACNET_APPLICATION_TAG_UNSIGNED_INT
    /\ last.data_value.value = 65536
    /\ last.application_data = <<35, 1, 0, 0, 255, 255>>
    /\ last.application_data_len = 3
    /\ last.decoded.len = BACNET_STATUS_ERROR

\* the extended form that a length calls for: 0 for none (inline length)
Form_Of(len_value_type) ==
    IF len_value_type <= 4 THEN 0
    ELSE IF len_value_type <= 253 THEN 1
    ELSE IF len_value_type <= 65535 THEN 3
    ELSE 5

\* C31: a tag whose extended length is in a form (one byte, 0xFE and 16
\* bits, 0xFF and 32 bits) that is not the one its magnitude calls for does
\* not decode; in the form it calls for it decodes to the value
C31_NonCanonicalRejected ==
    last.op = "Decode_Escalated" =>
        IF last.form = Form_Of(Len(last.data_value.value))
        THEN /\ last.decoded.len = last.apdu_len
             /\ Same_Value(last.decoded, last.data_value)
        ELSE last.decoded.len = BACNET_STATUS_ERROR

\* five bytes whose length was carried as 0xFE and 16 bits did not decode
C31_Witness ==
    /\ last.op = "Decode_Escalated"
    /\ last.form = 3
    /\ last.apdu = <<101, 254, 0, 5>> \o Octets(5, 255)
    /\ last.decoded.len = BACNET_STATUS_ERROR

\* C32: with a callback registered, every successful write of
\* PRESENT_VALUE through Write_Property calls it exactly once, with the
\* instance, the value held before the write and the value written, when
\* the store already holds the new value; a failed write and
\* Present_Value_Set call nothing
C32_CallbackOnce ==
    [][/\ \A i \in Keys :
            (last'.op = "Write_Property" /\ last'.object_instance = i) =>
                last'.callbacks =
                    IF /\ last'.status
                       /\ last'.object_property = "PROP_PRESENT_VALUE"
                       /\ Write_Present_Value_Callback # "NULL"
                    THEN <<[object_instance |-> i,
                            old_value |-> Color_Temperature_Present_Value(i),
                            value |-> bacapp_decode_application_data(
                                          last'.application_data,
                                          last'.application_data_len).value,
                            present_value |-> bacapp_decode_application_data(
                                          last'.application_data,
                                          last'.application_data_len).value]>>
                    ELSE <<>>
       /\ last'.op = "Present_Value_Set" => last'.callbacks = <<>>
      ]_vars

\* the callback was called once for the write of 65536 over 4000
C32_Witness ==
    /\ last.op = "Write_Property"
    /\ last.status
    /\ Write_Present_Value_Callback = "record"
    /\ last.callbacks = <<[object_instance |-> 1, old_value |-> 4000,
                           value |-> 65536, present_value |-> 65536]>>
    /\ Color_Temperature_Present_Value(1) = 65536

\* C33: when the callback of a present-value write deletes the instance
\* written or cleans the store up, the write path does not use the freed
\* record after the callback returns: the write returns true, the store is
\* as the callback left it and no other record has changed
C33_NoUseAfterCallback ==
    [][\A i \in Keys :
        (/\ last'.op = "Write_Property"
         /\ last'.object_instance = i
         /\ last'.status
         /\ Callback_Frees)
        => /\ ~last'.use_after_free
           /\ ~Color_Temperature_Valid_Instance(i)'
           /\ \A j \in Instances' :
                  Keylist_Data(Object_List', j) = Keylist_Data(Object_List, j)
           /\ Database_Revision' =
                  IF Write_Present_Value_Callback = "delete"
                  THEN Database_Revision + 1
                  ELSE Database_Revision + Color_Temperature_Count
      ]_vars

\* the callback deleted instance 1 during its write; instance 2 remains
C33_Witness ==
    /\ last.op = "Write_Property"
    /\ last.status
    /\ last.object_instance = 1
    /\ last.callbacks # <<>>
    /\ Write_Present_Value_Callback = "delete"
    /\ ~last.use_after_free
    /\ Instances = {2}
    /\ Database_Revision = 3

\* C34: the store keeps no reference to the caller's memory: when the
\* caller overwrites or releases a buffer it passed to Name_Set or
\* Description_Set, the name and the description reported stay the texts
\* held at the time of the call
C34_Original ==
    [][last'.op = "Caller_Modify" =>
        \A i \in Keys :
            /\ Color_Temperature_Object_Name(i)' =
                   Color_Temperature_Object_Name(i)
            /\ Color_Temperature_Description(i)' =
                   Color_Temperature_Description(i)
      ]_vars

\* C35: a record that Create adds starts in the default state (present
\* value and tracking value 0, in progress idle, default colour temperature
\* 5000, default fade time 0, transition none, no name, writes disabled),
\* also when its instance number was used and deleted before, and a write
\* of its present value is denied
C35_FreshRecord ==
    [][last'.op = "Create" => \A i \in {last'.instance} \ Instances :
        i # BACNET_MAX_INSTANCE
        => /\ Color_Temperature_Valid_Instance(i)'
           /\ Color_Temperature_Present_Value(i)' = 0
           /\ Color_Temperature_Tracking_Value(i)' = 0
           /\ Color_Temperature_In_Progress(i)' =
                  BACNET_COLOR_OPERATION_IN_PROGRESS_IDLE
           /\ Color_Temperature_Default_Color_Temperature(i)' = 5000
           /\ Color_Temperature_Default_Fade_Time(i)' = 0
           /\ Color_Temperature_Transition(i)' = BACNET_COLOR_TRANSITION_NONE
           /\ Color_Temperature_Object_Name(i)' =
                  [status |-> TRUE, text |-> Default_Name(i)]
           /\ Color_Temperature_Description(i)' = [text |-> <<>>]
           /\ ~Color_Temperature_Write_Enabled(i)'
           /\ Color_Temperature_Present_Value_Write(
                  i, 4000, BACNET_NO_PRIORITY, "UNSET", "UNSET")' =
                  [status |-> FALSE,
                   error_class |-> "ERROR_CLASS_PROPERTY",
                   error_code |-> "ERROR_CODE_WRITE_ACCESS_DENIED",
                   list |-> Object_List', callbacks |-> <<>>,
                   revision |-> Database_Revision',
                   use_after_free |-> FALSE]
      ]_vars

\* instance 1 was created, deleted and created again: it is in the default
\* state while instance 2 holds a written value
C35_Witness ==
    /\ last.op = "Create"
    /\ last.instance = 1
    /\ Database_Revision = 4
    /\ Instances = {1, 2}
    /\ Color_Temperature_Present_Value(1) = 0
    /\ ~Color_Temperature_Write_Enabled(1)
    /\ Color_Temperature_Present_Value(2) = 4000

\* C36: Default_Fade_Time_Set on a live instance returns true and stores
\* the value when it is 0 or in the range from the minimum to the maximum
\* fade time; for a value out of the range it returns false and leaves the
\* default fade time as it was
C36_Original ==
    [][\A i \in Keys :
        (/\ last'.op = "Default_Fade_Time_Set"
         /\ last'.object_instance = i
         /\ Color_Temperature_Valid_Instance(i))
        => IF \/ last'.value = 0
              \/ /\ last'.value >= BACNET_COLOR_FADE_TIME_MIN
                 /\ last'.value <= BACNET_COLOR_FADE_TIME_MAX
           THEN /\ last'.status = TRUE
                /\ Color_Temperature_Default_Fade_Time(i)' = last'.value
           ELSE /\ last'.status = FALSE
                /\ Color_Temperature_Default_Fade_Time(i)' =
                       Color_Temperature_Default_Fade_Time(i)
      ]_vars

\* C37: a Delete of a live instance x lowers by one the index of every
\* remaining instance above x, leaves the index of every instance below x
\* and lowers the count by one; a Create that adds an instance y raises by
\* one the index of every instance above y, leaves the others and raises
\* the count by one
C37_IndexShift ==
    [][/\ \A x \in Store_Keys :
            (/\ last'.op = "Delete"
             /\ last'.object_instance = x
             /\ Color_Temperature_Valid_Instance(x))
            => /\ Color_Temperature_Count' = Color_Temperature_Count - 1
               /\ \A j \in Instances \ {x} :
                      Color_Temperature_Instance_To_Index(j)' =
                          IF j > x
                          THEN Color_Temperature_Instance_To_Index(j) - 1
                          ELSE Color_Temperature_Instance_To_Index(j)
       /\ \A y \in 1 .. MaxStore + 1 :
            (/\ last'.op = "Create"
             /\ last'.instance = y
             /\ ~Color_Temperature_Valid_Instance(y))
            => /\ Color_Temperature_Count' = Color_Temperature_Count + 1
               /\ \A j \in Instances :
                      Color_Temperature_Instance_To_Index(j)' =
                          IF j > y
                          THEN Color_Temperature_Instance_To_Index(j) + 1
                          ELSE Color_Temperature_Instance_To_Index(j)
      ]_vars

\* instance 1 of three was deleted: 2 and 3 moved to the indexes 0 and 1
C37_Witness ==
    /\ last.op = "Delete"
    /\ last.object_instance = 1
    /\ last.status
    /\ Color_Temperature_Count = 2
    /\ Color_Temperature_Instance_To_Index(2) = 0
    /\ Color_Temperature_Instance_To_Index(3) = 1

\* C38: the outcome of a write of PRESENT_VALUE does not depend on its
\* priority: from every state, the requests that differ only in the
\* priority (none, 1 to 16) give the same result, the same error pair and
\* the same store
C38_PriorityIgnored ==
    \A wp \in {w \in Write_Inputs :
                  w.object_property = "PROP_PRESENT_VALUE"} :
        \A q \in Priorities :
            Write_Property([wp EXCEPT !.priority = q]) = Write_Property(wp)

\* a write at priority 16 stored 4000 in instance 1
C38_Witness ==
    /\ last.op = "Write_Property"
    /\ last.priority = BACNET_MAX_PRIORITY
    /\ last.status
    /\ last.object_instance = 1
    /\ Color_Temperature_Present_Value(1) = 4000
    /\ Color_Temperature_Valid_Instance(2)

\* C39: a Read_Property call, of any property, array index and instance,
\* live or not, answered or refused, changes no field of any record,
\* adds and removes no instance and leaves the database revision, the
\* callback and the caller's buffers as they were
C39_ReadOnly ==
    [][last'.op = "Read_Property"
        => /\ Object_List' = Object_List
           /\ Instances' = Instances
           /\ Database_Revision' = Database_Revision
           /\ Write_Present_Value_Callback' = Write_Present_Value_Callback
           /\ Memory' = Memory
      ]_vars

\* a read of an unknown property of instance 1 was refused; the record
\* holds the value set before
C39_Witness ==
    /\ last.op = "Read_Property"
    /\ last.object_instance = 1
    /\ last.apdu_len = BACNET_STATUS_ERROR
    /\ last.error_code = "ERROR_CODE_UNKNOWN_PROPERTY"
    /\ Color_Temperature_Present_Value(1) = 4000
    /\ Database_Revision = 2

\* C40: a Cleanup removes every record, adds to the database revision
\* exactly the number of records the store held and tears the store down;
\* a Cleanup of a store that is torn down or was never set up changes
\* nothing
C40_Cleanup ==
    [][last'.op = "Cleanup" =>
        /\ Object_List' = NULL
        /\ Instances' = {}
        /\ Color_Temperature_Count' = 0
        /\ Write_Present_Value_Callback' = Write_Present_Value_Callback
        /\ IF Object_List # NULL
           THEN Database_Revision' =
                    Database_Revision + Cardinality(Instances)
           ELSE Database_Revision' = Database_Revision
      ]_vars

\* a store of three records was cleaned up: the revision went from 3 to 6
C40_Witness ==
    /\ last.op = "Cleanup"
    /\ Object_List = NULL
    /\ Database_Revision = 6
    /\ Color_Temperature_Count = 0
    /\ ~Color_Temperature_Valid_Instance(1)

=============================================================================
